---- MODULE Spec2Model ----
(***************************************************************************)
(* docker-volume-sync: the synchronization engine of internal/syncer, and  *)
(* the program around it (cmd: main, internal/dockermanager).              *)
(*                                                                         *)
(* Syncer.Sync enumerates both endpoints into snapshots and hands them to  *)
(* executeSync, which starts `concurrency` worker goroutines, ranges over  *)
(* the two snapshots to submit copy and delete jobs through the buffered   *)
(* channel `jobs`, closes the channel, waits for the workers and returns   *)
(* the context's error or the first error of `errChan`.                    *)
(*                                                                         *)
(* Every goroutine step that touches shared state (a channel operation, a  *)
(* context cancellation, an executor's effect on the destination) is one   *)
(* action.  A Go select with several ready cases picks any of them.        *)
(*                                                                         *)
(* main restores the volume once (initialSync, gated by the sentinel file) *)
(* and then runs the closure `sync` on every tick of the cron schedule:    *)
(* stop the containers attached to the volume, back the volume up, start   *)
(* the containers again.  In the specifications of the program the engine  *)
(* is seen through the value Sync returns; in those of the engine the      *)
(* program around it stands still.                                         *)
(*                                                                         *)
(* EnumSpec looks inside the two enumerators and the executors' remote     *)
(* calls: keys, prefix and paths are strings, and the relative path of a   *)
(* key and the key rebuilt from it are computed as the code computes them. *)
(* ConfigSpec follows main from config.Load to the first pool.             *)
(***************************************************************************)
EXTENDS Integers, Sequences, FiniteSets, Bags, TLC

\* ---------------------------------------------------------------- bounds
\* Number of relative paths that exist on either endpoint.
MaxPaths == 3
\* Largest value WithConcurrency is called with (0 is accepted by the code).
MaxConcurrency == 2
\* Capacity of the jobs channel, make(chan job, 1000), scaled down so that a
\* plan can be larger than the queue.
JobsCap == 1
\* Capacity of errChan, make(chan error, 2000).
ErrChanCap == 2000
\* File sizes are 0..MaxSize, modification times 1..MaxTime.
MaxSize == 1
MaxTime == 2
\* Paths 1..MaxDiffPaths carry arbitrary metadata in DiffSpec.
MaxDiffPaths == 1
\* Paths 1..MaxFilterPaths exist in FilterSpec, where a filter is set.
MaxFilterPaths == 2

\* Containers the Docker daemon knows.
MaxContainers == 3
\* Scheduled runs of one process: ticks of the cron schedule.
MaxRuns == 2
\* Starts of the process on one volume.
MaxStartups == 2
\* c.ID[:12], selfID[:12]: the length of a short container ID.
ShortIDLen == 12

\* Object keys have 1..MaxKeyLen characters, the prefix 0..MaxPrefixLen.
MaxKeyLen == 3
MaxPrefixLen == 2
\* Objects in the bucket.
MaxObjects == 2
\* Keys in one page of the listing (ListObjectsV2: up to 1000).
MaxKeysPerPage == 1
\* Characters in the value of SYNC_CONCURRENCY.
MaxEnvLen == 2
\* cfg.Concurrency = 16
DefaultConcurrency == 16

Paths == 1..MaxPaths
Sizes == 0..MaxSize
Times == 1..MaxTime

\* ObjectInfo{Size, ModTime}; the Key field is not read by executeSync.
ObjectInfo == [size : Sizes, mtime : Times]

\* A snapshot (map[string]ObjectInfo) and an endpoint's store are functions
\* whose domain is the set of relative paths present.

\* type job struct { path; fn }
Job(p, f) == [path |-> p, fn |-> f]
NoJob == [path |-> 0, fn |-> "none"]
AllJobs == {Job(p, f) : p \in Paths, f \in {"copy", "delete"}}

\* error values: the error an executor returned for a job, with its cause
\* ("io": the executor failed by itself, "ctx": it was aborted because its
\* context was cancelled), or the context's own error.
JobError(j, c) == [path |-> j.path, fn |-> j.fn, cause |-> c]
CtxError(e) == [path |-> 0, fn |-> "ctx", cause |-> e]
NoErr == [path |-> 0, fn |-> "none", cause |-> "nil"]

VARIABLES
    srcStore,           \* the source endpoint's files/objects
    dstStore,           \* the destination endpoint's files/objects
    srcIsS3,            \* strings.HasPrefix(src, "s3://")
    dstIsS3,            \* strings.HasPrefix(dst, "s3://")
    filter,             \* Syncer.filter
    deleteDestination,  \* Syncer.deleteDestination
    concurrency,        \* Syncer.concurrency
    run,                \* "first" or "second" call of Sync
    pc,                 \* position of the goroutine that called Sync
    srcObjs, dstObjs,   \* the two snapshots handed to executeSync
    iter,               \* keys the current range loop has not visited yet
    pending,            \* the job submit() is blocked on, or NoJob
    jobs, jobsClosed,   \* the jobs channel: buffer and closed flag
    errChan,            \* the errChan buffer
    ctxErr,             \* ctx.Err() of executeSync's derived context
    callerErr,          \* Err() of the context the caller passed to Sync
    wg,                 \* the sync.WaitGroup counter
    workers,            \* the bag of live worker goroutines: [st, job, err]
    result,             \* the error Sync returned (NoErr: nil)
    prevResult,         \* what the first call returned, during the second
    \* history of the current call, read by the properties only
    enumLog,            \* the enumerations Sync made: [fn, side, ok], in order
    enqueued,           \* jobs sent on the channel, in order
    execCount,          \* job -> number of j.exec invocations
    outcome,            \* job -> "none" | "running" | "ok" | "io" | "ctx"
    lateDispatch,       \* jobs received by a worker after ctx was cancelled
    lateEnqueue         \* jobs sent on the channel after ctx was cancelled

VARIABLES
    sentinel,           \* the sentinel file exists in the volume
    mainPc,             \* position of main: "initialSync", "restore", "schedule",
                        \* "serving", "exited" ("none": no process)
    startups,           \* how many times the process has been started
    boot,               \* what initialSync saw and did in this process
    volumeName,         \* cfg.VolumeName
    selfID,             \* os.Hostname()
    mounts,             \* container -> its mounts, a sequence of [type, name]
    running,            \* the containers that are running
    runs                \* scheduled run -> the state of its goroutine

VARIABLES
    env,                \* os.Getenv("SYNC_CONCURRENCY"): "" when unset
    cfg,                \* cfg.Concurrency as Load returned it (0: not loaded)
    prefix,             \* the prefix parseS3URI took from the remote URI
    bucket,             \* the keys of the bucket's objects
    root,               \* the local endpoint's path
    tree,               \* the entries under root: path -> "dir" | "file"
    listPc,             \* ListS3Objects: "idle", "paging", "returned", "failed"
    contents,           \* the keys the paginator has not returned yet
    objs,               \* ListS3Objects' map: relPath -> [Key]
    walkPc,             \* WalkLocal: "idle", "walking", "returned", "failed"
    entries,            \* the paths WalkDir has not visited yet
    objects,            \* WalkLocal's map: relPath -> [Key]
    keyCall             \* the last remote call of an executor: [fn, relPath, key]

engineVars == <<srcStore, dstStore, srcIsS3, dstIsS3, filter, deleteDestination,
                concurrency, run, pc, srcObjs, dstObjs, iter, pending, jobs,
                jobsClosed, errChan, ctxErr, callerErr, wg, workers, result,
                prevResult, enumLog, enqueued, execCount, outcome, lateDispatch,
                lateEnqueue>>

setupVars == <<env, cfg, prefix, bucket, root, tree, listPc, contents, objs,
               walkPc, entries, objects, keyCall>>

hostVars == <<sentinel, mainPc, startups, boot, volumeName, selfID, mounts,
              running, runs, setupVars>>

vars == <<engineVars, hostVars>>

storeVars == <<srcStore, dstStore>>
cfgVars == <<srcIsS3, dstIsS3, filter, deleteDestination, concurrency>>
histVars == <<enqueued, execCount, outcome, lateDispatch, lateEnqueue>>

\* The elements of a sequence.
Range(seq) == {seq[i] : i \in 1..Len(seq)}

EmptyMap == [p \in {} |-> NoErr]

\* A worker goroutine between two steps: its position ("select", "exec",
\* "senderr", "cancel"), the job it is executing and the error it is about
\* to report.  The goroutines are anonymous: the pool is a bag of them.
Worker(st, j, e) == [st |-> st, job |-> j, err |-> e]
Pool(n) == IF n = 0 THEN EmptyBag
           ELSE [w \in {Worker("select", NoJob, NoErr)} |-> n]
Live == BagToSet(workers)
\* The pool after worker w moved to w2, and after it returned.
Moved(w, w2) == (workers (-) SetToBag({w})) (+) SetToBag({w2})
Gone(w) == workers (-) SetToBag({w})

\* ------------------------------------------------------- containers, runs
Containers == 1..MaxContainers
RunIds == 1..MaxRuns

\* Container IDs and host names are strings: sequences of characters.
Chars(ch, n) == [i \in 1..n |-> ch]

\* The IDs of the containers: two IDs longer than a short ID, the others
\* shorter than one or of just its length.
ContainerID(c) ==
    IF c = 1 THEN Chars("a", ShortIDLen) \o <<"1">>
    ELSE IF c = 2 THEN Chars("b", ShortIDLen) \o <<"2">>
    ELSE Chars("b", ShortIDLen - 1) \o Chars("c", c - 3)

\* What os.Hostname() can give: the short ID of container 1 (Docker's
\* default), its full ID, an ID that shares its short ID with container 2,
\* the ID of container 3, a proper prefix of container 1's short ID, and a
\* name the operator chose.
SelfIDs ==
    { Chars("a", ShortIDLen),
      ContainerID(1),
      Chars("b", ShortIDLen) \o <<"9">>,
      ContainerID(3),
      Chars("a", ShortIDLen - 1),
      <<"h", "o", "s", "t">> }

\* c.Mounts of a listed container: no mount, the volume, the volume after
\* another one, or a bind mount of the same name beside another volume.
Mount(t, n) == [type |-> t, name |-> n]
MountMenus ==
    { <<>>,
      <<Mount("volume", "data")>>,
      <<Mount("volume", "other"), Mount("volume", "data")>>,
      <<Mount("bind", "data"), Mount("volume", "other")>> }

\* A scheduled run that has not started: the goroutine cron starts for the
\* closure `sync`.  pc: "idle", "stopping", "sync", "starting", "done",
\* "killed".  listing, idx, stoppedIDs: res.Items, the loop position and the
\* slice of StopContainersAttachedToVolume.  stopped, stopErr: what
\* stopContainers returned.  syncErr: what syncVolume returned ("none": not
\* called yet, "running": in flight, "skipped").  restartErr: what
\* restartContainers returned.  stopCalls, startCalls, startFailed: the
\* ContainerStop and ContainerStart calls of the run, read by the
\* properties only.
NewRun ==
    [pc |-> "idle", listing |-> <<>>, idx |-> 0, stoppedIDs |-> <<>>,
     stopped |-> <<>>, stopErr |-> "none", syncErr |-> "none",
     restartErr |-> "none", stopCalls |-> <<>>, startCalls |-> <<>>,
     startFailed |-> {}]

\* initialSync has not run in this process.
NoBoot == [sentinel |-> FALSE, stat |-> "none", restore |-> "none"]

\* No executor has made a remote call.
NoKeyCall == [fn |-> "none", relPath |-> <<>>, key |-> <<>>]

\* The configuration and the endpoints' contents are not looked at: the
\* engine's specifications see the endpoints as stores of regular files,
\* the program's see Sync through its return value.
SetupUnseen ==
    /\ env = <<>> /\ cfg = 0
    /\ prefix = <<>> /\ bucket = {}
    /\ root = <<>> /\ tree = EmptyMap
    /\ listPc = "idle" /\ contents = <<>> /\ objs = EmptyMap
    /\ walkPc = "idle" /\ entries = <<>> /\ objects = EmptyMap
    /\ keyCall = NoKeyCall

\* No program around the engine: Sync is called directly.
NoProgram ==
    /\ sentinel = FALSE
    /\ mainPc = "none"
    /\ startups = 0
    /\ boot = NoBoot
    /\ volumeName = ""
    /\ selfID = <<>>
    /\ mounts = [c \in Containers |-> <<>>]
    /\ running = {}
    /\ runs = [r \in RunIds |-> NewRun]
    /\ SetupUnseen

\* ------------------------------------------------------------ enumerators
\* Syncer.filter: nil, or a predicate given by the relative paths it accepts.
NilFilter == [isNil |-> TRUE, accepts |-> {}]
Predicate(A) == [isNil |-> FALSE, accepts |-> A]

\* `if filter != nil && !filter(relPath) { skip }`
Skipped(f, p) == ~f.isNil /\ p \notin f.accepts

\* Enumerate applying no filter at all.
EnumerateUnfiltered(store, f) == store

\* WalkLocal / ListS3Objects over a store of regular files: each relative
\* path the filter does not skip, mapped to its size and modification time.
Enumerate(store, f) == [p \in {q \in DOMAIN store : ~Skipped(f, q)} |-> store[p]]

\* An enumeration Sync made, successful or failed.
Listing(isS3, side, ok) ==
    [fn |-> IF isS3 THEN "ListS3Objects" ELSE "WalkLocal", side |-> side, ok |-> ok]

\* fmt.Errorf("unsupported sync mode: ...")
Unsupported == [path |-> 0, fn |-> "Sync", cause |-> "unsupported"]
\* fmt.Errorf("failed to list objects: %w") / ("failed to walk local directory: %w")
EnumError(side) == [path |-> 0, fn |-> "enumerate", cause |-> side]

\* ------------------------------------------------------------ diff rules
\* ShouldCopy comparing the modification times for inequality.
ShouldCopyTimeDiffers(S, D, p) ==
    LET exists == p \in DOMAIN D
    IN  IF ~exists THEN TRUE
        ELSE IF S[p].size # D[p].size THEN TRUE
        ELSE S[p].mtime # D[p].mtime

\* ShouldDelete also deleting a path whose size differs from the source's.
ShouldDeleteStale(S, D, p) ==
    p \notin DOMAIN S \/ S[p].size # D[p].size

\* ShouldCopy recopying unless the destination is strictly newer.
ShouldCopyTimeNotBefore(S, D, p) ==
    LET exists == p \in DOMAIN D
    IN  IF ~exists THEN TRUE
        ELSE IF S[p].size # D[p].size THEN TRUE
        ELSE S[p].mtime >= D[p].mtime

\* The copy decision of the producer's first loop.
ShouldCopy(S, D, p) ==
    LET exists == p \in DOMAIN D
    IN  IF ~exists THEN TRUE
        ELSE IF S[p].size # D[p].size THEN TRUE
        ELSE S[p].mtime > D[p].mtime

\* ShouldDelete deleting every path the destination stores.
ShouldDeleteAll(S, D, p) == TRUE

\* The delete decision of the producer's second loop.
ShouldDelete(S, D, p) == p \notin DOMAIN S

\* ------------------------------------------------------------------ Init
\* No call of Sync has been made.
NoCall ==
    /\ enumLog = <<>>
    /\ run = "first"
    /\ pc = "idle"
    /\ srcObjs = EmptyMap /\ dstObjs = EmptyMap
    /\ iter = {}
    /\ pending = NoJob
    /\ jobs = <<>> /\ jobsClosed = FALSE
    /\ errChan = <<>>
    /\ ctxErr = "nil"
    /\ callerErr = "nil"
    /\ wg = 0
    /\ workers = EmptyBag
    /\ result = NoErr
    /\ prevResult = NoErr
    /\ enqueued = <<>>
    /\ execCount = [j \in AllJobs |-> 0]
    /\ outcome = [j \in AllJobs |-> "none"]
    /\ lateDispatch = {}
    /\ lateEnqueue = <<>>

InitCommon ==
    /\ srcIsS3 \in BOOLEAN
    /\ dstIsS3 \in BOOLEAN
    /\ deleteDestination \in BOOLEAN
    /\ concurrency \in 0..MaxConcurrency
    /\ NoCall
    /\ NoProgram

\* The stores of Spec: paths 1..a are stored at the source only, a+1..b on
\* both sides and in sync, b+1..MaxPaths at the destination only.  Together
\* with the map order of the range loops (any key next) this covers every
\* arrangement of such paths up to renaming.
PoolInfo == [size |-> MaxSize, mtime |-> MaxTime]
PoolStore(S) == [p \in S |-> PoolInfo]

Init ==
    /\ \E a \in 0..MaxPaths : \E b \in a..MaxPaths :
         /\ srcStore = PoolStore(1..b)
         /\ dstStore = PoolStore((a + 1)..MaxPaths)
    /\ filter = NilFilter
    /\ InitCommon

\* ------------------------------------------------------- Sync, producer
\* SpawnCount with the loop bound off by one (i <= s.concurrency).
SpawnCountOffByOne(n) == n + 1

\* The number of worker goroutines the start loop launches:
\* for i := 0; i < s.concurrency; i++ { wg.Add(1); go func() {...}() }
SpawnCount(n) == n

\* SyncUnsupported treating every endpoint pair as a supported one.
SyncAnyMode ==
    /\ pc = "idle"
    /\ srcIsS3 = dstIsS3
    /\ enumLog' = <<Listing(srcIsS3, "src", TRUE), Listing(dstIsS3, "dst", TRUE)>>
    /\ srcObjs' = Enumerate(srcStore, filter)
    /\ dstObjs' = Enumerate(dstStore, filter)
    /\ iter' = DOMAIN Enumerate(srcStore, filter)
    /\ ctxErr' = callerErr
    /\ wg' = concurrency
    /\ workers' = Pool(concurrency)
    /\ pc' = "copy"
    /\ UNCHANGED <<hostVars, storeVars, cfgVars, run, pending, jobs, jobsClosed, errChan,
                   callerErr, result, prevResult, enqueued, execCount, outcome,
                   lateDispatch, lateEnqueue>>

\* Sync with both endpoints remote or both local: the else branch returns
\* the unsupported-mode error.
SyncUnsupported ==
    /\ pc = "idle"
    /\ srcIsS3 = dstIsS3
    /\ result' = Unsupported
    /\ pc' = "returned"
    /\ UNCHANGED <<hostVars, storeVars, cfgVars, run, enumLog, srcObjs, dstObjs, iter, pending,
                   jobs, jobsClosed, errChan, ctxErr, callerErr, wg, workers,
                   prevResult, enqueued, execCount, outcome, lateDispatch, lateEnqueue>>

\* SyncEnumerateFails going on with the snapshot built so far (none of the
\* failed side's entries) instead of returning the error.
SyncEnumerateBestEffort ==
    /\ pc = "idle"
    /\ srcIsS3 # dstIsS3
    /\ \E side \in {"src", "dst"} :
         /\ enumLog' = IF side = "src"
                       THEN <<Listing(srcIsS3, "src", FALSE), Listing(dstIsS3, "dst", TRUE)>>
                       ELSE <<Listing(srcIsS3, "src", TRUE), Listing(dstIsS3, "dst", FALSE)>>
         /\ srcObjs' = IF side = "src" THEN EmptyMap ELSE Enumerate(srcStore, filter)
         /\ dstObjs' = IF side = "dst" THEN EmptyMap ELSE Enumerate(dstStore, filter)
         /\ iter' = IF side = "src" THEN {} ELSE DOMAIN Enumerate(srcStore, filter)
    /\ ctxErr' = callerErr
    /\ wg' = concurrency
    /\ workers' = Pool(concurrency)
    /\ pc' = "copy"
    /\ UNCHANGED <<hostVars, storeVars, cfgVars, run, pending, jobs, jobsClosed, errChan,
                   callerErr, result, prevResult, enqueued, execCount, outcome,
                   lateDispatch, lateEnqueue>>

\* syncS3ToLocal / syncLocalToS3 when an enumeration fails: the source is
\* enumerated first and `if err != nil { return err }` follows each
\* enumeration, so a failure of the source leaves the destination
\* unvisited.  The enumerator returned (nil, err): what it had collected
\* before the failing page or directory entry is dropped.
SyncEnumerateFails ==
    /\ pc = "idle"
    /\ srcIsS3 # dstIsS3
    /\ \E side \in {"src", "dst"} :
         /\ enumLog' = IF side = "src"
                       THEN <<Listing(srcIsS3, "src", FALSE)>>
                       ELSE <<Listing(srcIsS3, "src", TRUE), Listing(dstIsS3, "dst", FALSE)>>
         /\ result' = EnumError(side)
    /\ pc' = "returned"
    /\ UNCHANGED <<hostVars, storeVars, cfgVars, run, srcObjs, dstObjs, iter, pending,
                   jobs, jobsClosed, errChan, ctxErr, callerErr, wg, workers,
                   prevResult, enqueued, execCount, outcome, lateDispatch, lateEnqueue>>

\* Sync -> syncS3ToLocal / syncLocalToS3 -> executeSync up to the first
\* range loop: exactly one endpoint is remote, both snapshots are taken,
\* the context is derived from the caller's (a cancelled parent gives a
\* cancelled child), the channels are made and the workers are started.
SyncCall ==
    /\ pc = "idle"
    /\ srcIsS3 # dstIsS3
    /\ enumLog' = <<Listing(srcIsS3, "src", TRUE), Listing(dstIsS3, "dst", TRUE)>>
    /\ srcObjs' = Enumerate(srcStore, filter)
    /\ dstObjs' = Enumerate(dstStore, filter)
    /\ ctxErr' = callerErr
    /\ jobs' = <<>> /\ jobsClosed' = FALSE
    /\ errChan' = <<>>
    /\ wg' = SpawnCount(concurrency)
    /\ workers' = Pool(SpawnCount(concurrency))
    /\ iter' = DOMAIN Enumerate(srcStore, filter)
    /\ pending' = NoJob
    /\ pc' = "copy"
    /\ UNCHANGED <<hostVars, storeVars, cfgVars, run, callerErr, result, prevResult, histVars>>

\* CopyLoop without `if ctx.Err() != nil { break }`.
CopyLoopUnchecked ==
    /\ pc = "copy" /\ pending = NoJob
    /\ IF iter = {}
       THEN /\ pc' = "delete"
            /\ iter' = DOMAIN dstObjs
            /\ pending' = NoJob
       ELSE \E p \in iter :
              /\ pc' = pc
              /\ iter' = iter \ {p}
              /\ pending' = IF ShouldCopy(srcObjs, dstObjs, p)
                            THEN Job(p, "copy") ELSE NoJob
    /\ UNCHANGED <<hostVars, storeVars, cfgVars, run, enumLog, srcObjs, dstObjs, jobs, jobsClosed,
                   errChan, ctxErr, callerErr, wg, workers, result, prevResult,
                   histVars>>

\* One iteration of `for path, srcInfo := range srcObjs` up to the call of
\* submit: the range ends when no key is left; otherwise the next key (map
\* order: any key not visited yet) is taken, the loop breaks if ctx.Err() is
\* set, and a job is handed to submit when shouldCopy.
CopyLoop ==
    /\ pc = "copy" /\ pending = NoJob
    /\ IF iter = {}
       THEN /\ pc' = "delete"
            /\ iter' = DOMAIN dstObjs
            /\ pending' = NoJob
       ELSE \E p \in iter :
              IF ctxErr # "nil"
              THEN /\ pc' = "delete"
                   /\ iter' = DOMAIN dstObjs
                   /\ pending' = NoJob
              ELSE /\ pc' = pc
                   /\ iter' = iter \ {p}
                   /\ pending' = IF ShouldCopy(srcObjs, dstObjs, p)
                                 THEN Job(p, "copy") ELSE NoJob
    /\ UNCHANGED <<hostVars, storeVars, cfgVars, run, enumLog, srcObjs, dstObjs, jobs, jobsClosed,
                   errChan, ctxErr, callerErr, wg, workers, result, prevResult,
                   histVars>>

\* DeleteLoop running beside the copy loop instead of after it: a delete
\* job can be submitted while copy jobs are still to be submitted.
DeleteLoopDuringCopy ==
    /\ pc \in {"copy", "delete"} /\ pending = NoJob
    /\ IF pc = "copy"
       THEN /\ deleteDestination
            /\ \E p \in DOMAIN dstObjs :
                 /\ ShouldDelete(srcObjs, dstObjs, p)
                 /\ Job(p, "delete") \notin Range(enqueued)
                 /\ pending' = Job(p, "delete")
            /\ pc' = pc
            /\ iter' = iter
       ELSE IF ~deleteDestination \/ iter = {}
       THEN /\ pc' = "close"
            /\ iter' = {}
            /\ pending' = NoJob
       ELSE \E p \in iter :
              IF ctxErr # "nil"
              THEN /\ pc' = "close"
                   /\ iter' = {}
                   /\ pending' = NoJob
              ELSE /\ pc' = pc
                   /\ iter' = iter \ {p}
                   /\ pending' = IF ShouldDelete(srcObjs, dstObjs, p)
                                 THEN Job(p, "delete") ELSE NoJob
    /\ UNCHANGED <<hostVars, storeVars, cfgVars, run, enumLog, srcObjs, dstObjs, jobs, jobsClosed,
                   errChan, ctxErr, callerErr, wg, workers, result, prevResult,
                   histVars>>

\* `if s.deleteDestination { for path := range dstObjs {...} }` up to the
\* call of submit.
DeleteLoop ==
    /\ pc = "delete" /\ pending = NoJob
    /\ IF ~deleteDestination \/ iter = {}
       THEN /\ pc' = "close"
            /\ iter' = {}
            /\ pending' = NoJob
       ELSE \E p \in iter :
              IF ctxErr # "nil"
              THEN /\ pc' = "close"
                   /\ iter' = {}
                   /\ pending' = NoJob
              ELSE /\ pc' = pc
                   /\ iter' = iter \ {p}
                   /\ pending' = IF ShouldDelete(srcObjs, dstObjs, p)
                                 THEN Job(p, "delete") ELSE NoJob
    /\ UNCHANGED <<hostVars, storeVars, cfgVars, run, enumLog, srcObjs, dstObjs, jobs, jobsClosed,
                   errChan, ctxErr, callerErr, wg, workers, result, prevResult,
                   histVars>>

\* SubmitSend as a non-blocking send: a job that finds the buffer full is
\* dropped.
SubmitSendOrDrop ==
    /\ pending # NoJob
    /\ IF Len(jobs) < JobsCap
       THEN /\ jobs' = Append(jobs, pending)
            /\ enqueued' = Append(enqueued, pending)
            /\ lateEnqueue' = IF ctxErr # "nil"
                              THEN Append(lateEnqueue, pending) ELSE lateEnqueue
       ELSE UNCHANGED <<jobs, enqueued, lateEnqueue>>
    /\ pending' = NoJob
    /\ UNCHANGED <<hostVars, storeVars, cfgVars, run, enumLog, pc, srcObjs, dstObjs, iter, jobsClosed,
                   errChan, ctxErr, callerErr, wg, workers, result, prevResult,
                   execCount, outcome, lateDispatch>>

\* submit, case jobs <- j: the buffer has room.
SubmitSend ==
    /\ pending # NoJob
    /\ Len(jobs) < JobsCap
    /\ jobs' = Append(jobs, pending)
    /\ enqueued' = Append(enqueued, pending)
    /\ lateEnqueue' = IF ctxErr # "nil" THEN Append(lateEnqueue, pending) ELSE lateEnqueue
    /\ pending' = NoJob
    /\ UNCHANGED <<hostVars, storeVars, cfgVars, run, enumLog, pc, srcObjs, dstObjs, iter, jobsClosed,
                   errChan, ctxErr, callerErr, wg, workers, result, prevResult,
                   execCount, outcome, lateDispatch>>

\* submit without its cancellation case: a plain blocking send.
SubmitNeverCancelled ==
    /\ FALSE
    /\ UNCHANGED vars

\* submit, case <-ctx.Done(): submit returns false and the loop breaks.
SubmitCancelled ==
    /\ pending # NoJob
    /\ ctxErr # "nil"
    /\ pending' = NoJob
    /\ pc' = IF pc = "copy" THEN "delete" ELSE "close"
    /\ iter' = IF pc = "copy" THEN DOMAIN dstObjs ELSE {}
    /\ UNCHANGED <<hostVars, storeVars, cfgVars, run, enumLog, srcObjs, dstObjs, jobs, jobsClosed,
                   errChan, ctxErr, callerErr, wg, workers, result, prevResult,
                   histVars>>

\* close(jobs)
CloseJobs ==
    /\ pc = "close"
    /\ jobsClosed' = TRUE
    /\ pc' = "wait"
    /\ UNCHANGED <<hostVars, storeVars, cfgVars, run, enumLog, srcObjs, dstObjs, iter, pending, jobs,
                   errChan, ctxErr, callerErr, wg, workers, result, prevResult,
                   histVars>>

\* ReturnValue without the exemption of context.Canceled.
ReturnValueAnyCtxErr(cerr, errs) ==
    IF cerr # "nil" THEN CtxError(cerr)
    ELSE IF errs # <<>> THEN Head(errs)
    ELSE NoErr

\* ReturnValue keeping the error recorded last.
ReturnValueLast(cerr, errs) ==
    IF cerr # "nil" /\ cerr # "Canceled" THEN CtxError(cerr)
    ELSE IF errs # <<>> THEN errs[Len(errs)]
    ELSE NoErr

\* The value executeSync returns once the workers are gone: the context's
\* error unless it is nil or context.Canceled, else the first error of
\* errChan, else nil.
ReturnValue(cerr, errs) ==
    IF cerr # "nil" /\ cerr # "Canceled" THEN CtxError(cerr)
    ELSE IF errs # <<>> THEN Head(errs)
    ELSE NoErr

\* WaitAndReturn without wg.Wait().
ReturnWithoutWait ==
    /\ pc = "wait"
    /\ result' = ReturnValue(ctxErr, errChan)
    /\ ctxErr' = IF ctxErr = "nil" THEN "Canceled" ELSE ctxErr
    /\ pc' = "returned"
    /\ UNCHANGED <<hostVars, storeVars, cfgVars, run, enumLog, srcObjs, dstObjs, iter, pending, jobs,
                   jobsClosed, errChan, callerErr, wg, workers, prevResult,
                   histVars>>

\* wg.Wait() returns, close(errChan), the result is computed and the
\* deferred cancel() runs.
WaitAndReturn ==
    /\ pc = "wait"
    /\ wg = 0
    /\ result' = ReturnValue(ctxErr, errChan)
    /\ ctxErr' = IF ctxErr = "nil" THEN "Canceled" ELSE ctxErr
    /\ pc' = "returned"
    /\ UNCHANGED <<hostVars, storeVars, cfgVars, run, enumLog, srcObjs, dstObjs, iter, pending, jobs,
                   jobsClosed, errChan, callerErr, wg, workers, prevResult,
                   histVars>>

\* -------------------------------------------------------------- executors
\* copyFunc returned nil: the destination holds the path with the source's
\* size and a modification time t, not earlier than the source's.
CopyDone(src, dst, p, t) ==
    [q \in DOMAIN dst \cup {p} |->
        IF q = p THEN [size |-> src[p].size, mtime |-> t] ELSE dst[q]]

\* The download closure failed after os.Create: the local file is left
\* created or truncated, with no content.
CopyTruncated(dst, p, t) ==
    [q \in DOMAIN dst \cup {p} |->
        IF q = p THEN [size |-> 0, mtime |-> t] ELSE dst[q]]

\* deleteFunc returned nil: os.Remove / DeleteObject removed the path.
DeleteDone(dst, p) == [q \in DOMAIN dst \ {p} |-> dst[q]]

\* The times a write to the destination can stamp on path p: the time of
\* writing, taken to be not earlier than the source's modification time.
WriteTimes(p) == {u \in Times : u >= srcStore[p].mtime}

\* The destinations j.exec can leave behind when it returns nil.
ExecOk(j) ==
    IF j.fn = "copy"
    THEN {CopyDone(srcStore, dstStore, j.path, t) : t \in WriteTimes(j.path)}
    ELSE {DeleteDone(dstStore, j.path)}

\* The destinations j.exec can leave behind when it returns an error: an
\* upload or a delete that failed changed nothing; a download that failed
\* changed nothing (MkdirAll or Create failed) or left an empty file.
ExecFailed(j) ==
    IF j.fn = "copy" /\ srcIsS3
    THEN {dstStore} \cup {CopyTruncated(dstStore, j.path, t) : t \in WriteTimes(j.path)}
    ELSE {dstStore}

\* ---------------------------------------------------------------- workers
\* select, case <-ctx.Done(): return (deferred wg.Done()).
WorkerCtxDone(w) ==
    /\ w \in Live /\ w.st = "select"
    /\ ctxErr # "nil"
    /\ workers' = Gone(w)
    /\ wg' = wg - 1
    /\ UNCHANGED <<hostVars, storeVars, cfgVars, run, enumLog, pc, srcObjs, dstObjs, iter, pending,
                   jobs, jobsClosed, errChan, ctxErr, callerErr, result,
                   prevResult, histVars>>

\* select, case j, ok := <-jobs with ok: the job is received and j.exec(ctx)
\* is invoked.
WorkerRecv(w) ==
    /\ w \in Live /\ w.st = "select"
    /\ jobs # <<>>
    /\ LET j == Head(jobs)
       IN  /\ jobs' = Tail(jobs)
           /\ workers' = Moved(w, Worker("exec", j, NoErr))
           /\ execCount' = [execCount EXCEPT ![j] = @ + 1]
           /\ outcome' = [outcome EXCEPT ![j] = "running"]
           /\ lateDispatch' = IF ctxErr # "nil"
                              THEN lateDispatch \cup {j} ELSE lateDispatch
    /\ UNCHANGED <<hostVars, storeVars, cfgVars, run, enumLog, pc, srcObjs, dstObjs, iter, pending,
                   jobsClosed, errChan, ctxErr, callerErr, wg, result,
                   prevResult, enqueued, lateEnqueue>>

\* select, case j, ok := <-jobs with !ok: the channel is closed and drained.
WorkerRecvClosed(w) ==
    /\ w \in Live /\ w.st = "select"
    /\ jobs = <<>> /\ jobsClosed
    /\ workers' = Gone(w)
    /\ wg' = wg - 1
    /\ UNCHANGED <<hostVars, storeVars, cfgVars, run, enumLog, pc, srcObjs, dstObjs, iter, pending,
                   jobs, jobsClosed, errChan, ctxErr, callerErr, result,
                   prevResult, histVars>>

\* j.exec(ctx) returns nil: the worker loops back to its select.
ExecReturnsNil(w) ==
    /\ w \in Live /\ w.st = "exec"
    /\ LET j == w.job
       IN  /\ dstStore' \in ExecOk(j)
           /\ outcome' = [outcome EXCEPT ![j] = "ok"]
    /\ workers' = Moved(w, Worker("select", NoJob, NoErr))
    /\ UNCHANGED <<hostVars, srcStore, cfgVars, run, enumLog, pc, srcObjs, dstObjs, iter, pending,
                   jobs, jobsClosed, errChan, ctxErr, callerErr, wg, result,
                   prevResult, enqueued, execCount, lateDispatch, lateEnqueue>>

\* ExecReturnsErr calling cancel() before the error is sent on errChan.
ExecReturnsErrCancelFirst(w) ==
    /\ w \in Live /\ w.st = "exec"
    /\ LET j == w.job
       IN  \E c \in {"io"} \cup (IF ctxErr # "nil" THEN {"ctx"} ELSE {}) :
             /\ dstStore' \in ExecFailed(j)
             /\ outcome' = [outcome EXCEPT ![j] = c]
             /\ workers' = Moved(w, Worker("senderr", NoJob, JobError(j, c)))
    /\ ctxErr' = IF ctxErr = "nil" THEN "Canceled" ELSE ctxErr
    /\ UNCHANGED <<hostVars, srcStore, cfgVars, run, enumLog, pc, srcObjs, dstObjs, iter, pending,
                   jobs, jobsClosed, errChan, callerErr, wg, result,
                   prevResult, enqueued, execCount, lateDispatch, lateEnqueue>>

\* j.exec(ctx) returns an error: the executor failed by itself ("io") or,
\* its context being cancelled, was aborted ("ctx").
ExecReturnsErr(w) ==
    /\ w \in Live /\ w.st = "exec"
    /\ LET j == w.job
       IN  \E c \in {"io"} \cup (IF ctxErr # "nil" THEN {"ctx"} ELSE {}) :
             /\ dstStore' \in ExecFailed(j)
             /\ outcome' = [outcome EXCEPT ![j] = c]
             /\ workers' = Moved(w, Worker("senderr", NoJob, JobError(j, c)))
    /\ UNCHANGED <<hostVars, srcStore, cfgVars, run, enumLog, pc, srcObjs, dstObjs, iter, pending,
                   jobs, jobsClosed, errChan, ctxErr, callerErr, wg, result,
                   prevResult, enqueued, execCount, lateDispatch, lateEnqueue>>

\* select { case errChan <- err: default: }
WorkerSendErr(w) ==
    /\ w \in Live /\ w.st = "senderr"
    /\ errChan' = IF Len(errChan) < ErrChanCap
                  THEN Append(errChan, w.err) ELSE errChan
    /\ workers' = Moved(w, Worker("cancel", NoJob, NoErr))
    /\ UNCHANGED <<hostVars, storeVars, cfgVars, run, enumLog, pc, srcObjs, dstObjs, iter, pending,
                   jobs, jobsClosed, ctxErr, callerErr, wg, result, prevResult,
                   histVars>>

\* cancel(); return (deferred wg.Done()).
WorkerCancel(w) ==
    /\ w \in Live /\ w.st = "cancel"
    /\ ctxErr' = IF ctxErr = "nil" THEN "Canceled" ELSE ctxErr
    /\ workers' = Gone(w)
    /\ wg' = wg - 1
    /\ UNCHANGED <<hostVars, storeVars, cfgVars, run, enumLog, pc, srcObjs, dstObjs, iter, pending,
                   jobs, jobsClosed, errChan, callerErr, result, prevResult,
                   histVars>>

\* ------------------------------------------------------------ environment
\* The caller's context ends: it is cancelled or its deadline passes, and
\* the derived context of a running executeSync ends with the same error.
\* A derived context that has ended keeps its first error, so the end of
\* the caller's context after that changes nothing the call reads.
CallerCancel ==
    /\ callerErr = "nil"
    /\ pc # "returned"
    /\ ctxErr = "nil"
    /\ \E e \in {"Canceled", "DeadlineExceeded"} :
         /\ callerErr' = e
         /\ ctxErr' = IF pc # "idle" THEN e ELSE ctxErr
    /\ UNCHANGED <<hostVars, storeVars, cfgVars, run, enumLog, pc, srcObjs, dstObjs, iter, pending,
                   jobs, jobsClosed, errChan, wg, workers, result, prevResult,
                   histVars>>

\* The caller calls Sync a second time between the same endpoints, with a
\* context that is live or has ended; nothing else has touched the endpoints.
SyncAgain ==
    /\ pc = "returned"
    /\ run = "first"
    /\ run' = "second"
    /\ prevResult' = result
    /\ result' = NoErr
    /\ callerErr' \in {"nil", "Canceled", "DeadlineExceeded"}
    /\ ctxErr' = "nil"
    /\ pc' = "idle"
    /\ workers' = EmptyBag
    /\ jobs' = <<>> /\ jobsClosed' = FALSE /\ errChan' = <<>>
    /\ srcObjs' = EmptyMap /\ dstObjs' = EmptyMap
    /\ enumLog' = <<>>
    /\ enqueued' = <<>>
    /\ execCount' = [j \in AllJobs |-> 0]
    /\ outcome' = [j \in AllJobs |-> "none"]
    /\ lateDispatch' = {}
    /\ lateEnqueue' = <<>>
    /\ UNCHANGED <<hostVars, storeVars, cfgVars, iter, pending, wg>>

\* ------------------------------------------------------------------ Next
Next ==
    \/ SyncUnsupported
    \/ SyncEnumerateFails
    \/ SyncCall
    \/ CopyLoop
    \/ DeleteLoop
    \/ SubmitSend
    \/ SubmitCancelled
    \/ CloseJobs
    \/ WaitAndReturn
    \/ \E w \in Live : WorkerCtxDone(w)
    \/ \E w \in Live : WorkerRecv(w)
    \/ \E w \in Live : WorkerRecvClosed(w)
    \/ \E w \in Live : ExecReturnsNil(w)
    \/ \E w \in Live : ExecReturnsErr(w)
    \/ \E w \in Live : WorkerSendErr(w)
    \/ \E w \in Live : WorkerCancel(w)
    \/ CallerCancel

Spec == Init /\ [][Next]_vars

\* ------------------------------------------------- DiffSpec: two calls
\* The stores of DiffSpec: paths 1..MaxDiffPaths are absent or stored with
\* any size and modification time on either side; Sync runs with no worker
\* or with one, and is called twice.
DiffPaths == 1..MaxDiffPaths
DiffStores == UNION {[S -> ObjectInfo] : S \in SUBSET DiffPaths}

DiffInit ==
    /\ srcStore \in DiffStores
    /\ dstStore \in DiffStores
    /\ filter = NilFilter
    /\ InitCommon
    /\ concurrency <= 1

DiffNext == Next \/ SyncAgain

\* ------------------------------------------------ FairSpec: scheduling
\* A step of one of the program's goroutines.  The Go scheduler runs some
\* runnable goroutine; the caller's cancellation is the environment's and
\* need never happen.
ProgramStep ==
    \/ SyncUnsupported
    \/ SyncEnumerateFails
    \/ SyncCall
    \/ CopyLoop
    \/ DeleteLoop
    \/ SubmitSend
    \/ SubmitCancelled
    \/ CloseJobs
    \/ WaitAndReturn
    \/ \E w \in Live : WorkerCtxDone(w)
    \/ \E w \in Live : WorkerRecv(w)
    \/ \E w \in Live : WorkerRecvClosed(w)
    \/ \E w \in Live : ExecReturnsNil(w)
    \/ \E w \in Live : ExecReturnsErr(w)
    \/ \E w \in Live : WorkerSendErr(w)
    \/ \E w \in Live : WorkerCancel(w)

FairSpec == Init /\ [][Next]_vars /\ WF_vars(ProgramStep)

DiffSpec == DiffInit /\ [][DiffNext]_vars

\* --------------------------------------------- FilterSpec: a filter is set
\* The stores of FilterSpec: each of the paths 1..MaxFilterPaths is absent
\* or stored on either side, at the destination in sync with the source or
\* stale; the filter is a predicate accepting any subset of the paths; Sync
\* runs with no worker or with one.
FilterPaths == 1..MaxFilterPaths
StaleInfo == [size |-> 0, mtime |-> 1]
FilterInit ==
    /\ \E S \in SUBSET FilterPaths : srcStore = PoolStore(S)
    /\ \E S \in SUBSET FilterPaths : dstStore \in [S -> {PoolInfo, StaleInfo}]
    /\ \E A \in SUBSET FilterPaths : filter = Predicate(A)
    /\ InitCommon
    /\ concurrency <= 1

FilterSpec == FilterInit /\ [][Next]_vars

\* ================================================================ program
\* The engine as the program sees it: restore and backup are calls of Sync
\* that return nil or an error.
EngineUnseen ==
    /\ srcStore = EmptyMap /\ dstStore = EmptyMap
    /\ srcIsS3 = TRUE /\ dstIsS3 = FALSE
    /\ filter = NilFilter
    /\ deleteDestination = FALSE
    /\ concurrency = 1
    /\ NoCall

\* ------------------------------------------------------- dockermanager
\* IsSelf comparing the whole IDs only.
IsSelfExactOnly(id, self) == id = self

\* c.ID == selfID || (len(c.ID) >= 12 && len(selfID) >= 12 &&
\*                    c.ID[:12] == selfID[:12])
IsSelf(id, self) ==
    \/ id = self
    \/ /\ Len(id) >= ShortIDLen
       /\ Len(self) >= ShortIDLen
       /\ SubSeq(id, 1, ShortIDLen) = SubSeq(self, 1, ShortIDLen)

\* IsAttached going by the mount's name alone.
IsAttachedByName(ms, vol) ==
    \E i \in 1..Len(ms) : ms[i].name = vol

\* for _, mount := range c.Mounts:
\*     mount.Type == "volume" && mount.Name == volumeName
IsAttached(ms, vol) ==
    \E i \in 1..Len(ms) : ms[i].type = "volume" /\ ms[i].name = vol

\* ContainerList with the default options: the running containers, in the
\* daemon's order.
RECURSIVE Ordered(_)
Ordered(S) ==
    IF S = {} THEN <<>>
    ELSE LET m == CHOOSE x \in S : \A y \in S : x <= y
         IN  <<m>> \o Ordered(S \ {m})

\* The loop of StopContainersAttachedToVolume from position i up to its
\* next ContainerStop: the position of the first container that is
\* attached and not self, or Len(l) + 1 when the loop ends without one.
RECURSIVE NextStop(_, _)
NextStop(l, i) ==
    IF i > Len(l) THEN i
    ELSE IF IsAttached(mounts[l[i]], volumeName) /\ ~IsSelf(ContainerID(l[i]), selfID)
         THEN i
         ELSE NextStop(l, i + 1)

\* A tick of the schedule: cron starts the closure `sync` in a goroutine of
\* its own, and the run goes up to its first ContainerStop.  stopContainers
\* skips the stop phase when cfg.VolumeName is empty; otherwise
\* StopContainersAttachedToVolume reads the host name and lists the
\* containers.  When either fails, stopErr is set, the backup is skipped
\* and restartContainers(nil) returns at once.  When no listed container
\* is to be stopped the run goes on to syncVolume.
RunSync(r) ==
    /\ mainPc = "serving"
    /\ runs[r].pc = "idle"
    /\ \A q \in RunIds : q < r => runs[q].pc # "idle"
    /\ IF volumeName = ""
       THEN runs' = [runs EXCEPT ![r].pc = "sync", ![r].stopErr = "nil",
                                 ![r].syncErr = "running"]
       ELSE \E e \in {"nil", "hostname", "list"} :
              IF e # "nil"
              THEN runs' = [runs EXCEPT ![r].pc = "done", ![r].stopErr = e,
                                        ![r].syncErr = "skipped",
                                        ![r].restartErr = "nil"]
              ELSE LET l == Ordered(running)
                       i == NextStop(l, 1)
                   IN  IF i > Len(l)
                       THEN runs' = [runs EXCEPT ![r].pc = "sync",
                                                 ![r].listing = l, ![r].idx = i,
                                                 ![r].stopErr = "nil",
                                                 ![r].syncErr = "running"]
                       ELSE runs' = [runs EXCEPT ![r].pc = "stopping",
                                                 ![r].listing = l, ![r].idx = i]
    /\ UNCHANGED <<engineVars, setupVars, sentinel, mainPc, startups, boot, volumeName,
                   selfID, mounts, running>>

\* ContainerStop returning nil in place of stoppedIDs when the call fails.
ContainerStopDropsIDs(r) ==
    /\ runs[r].pc = "stopping"
    /\ LET c == runs[r].listing[runs[r].idx]
           i == NextStop(runs[r].listing, runs[r].idx + 1)
       IN  \E ok \in BOOLEAN :
             IF ok
             THEN /\ running' = running \ {c}
                  /\ runs' = [runs EXCEPT
                        ![r].stopCalls = Append(@, c),
                        ![r].stoppedIDs = Append(@, c),
                        ![r].idx = i,
                        ![r].pc = IF i > Len(runs[r].listing) THEN "sync" ELSE "stopping",
                        ![r].stopped = IF i > Len(runs[r].listing)
                                       THEN Append(runs[r].stoppedIDs, c) ELSE @,
                        ![r].stopErr = IF i > Len(runs[r].listing) THEN "nil" ELSE @,
                        ![r].syncErr = IF i > Len(runs[r].listing) THEN "running" ELSE @]
             ELSE /\ running' = running
                  /\ runs' = [runs EXCEPT
                        ![r].stopCalls = Append(@, c),
                        ![r].stoppedIDs = <<>>,
                        ![r].stopped = <<>>,
                        ![r].stopErr = "stop",
                        ![r].syncErr = "skipped",
                        ![r].restartErr = "nil",
                        ![r].pc = "done"]
    /\ UNCHANGED <<engineVars, setupVars, sentinel, mainPc, startups, boot, volumeName,
                   selfID, mounts>>

\* m.client.ContainerStop(ctx, c.ID, ...) on the container at the loop's
\* position.  On success the ID is appended to stoppedIDs and the loop
\* goes on to its next ContainerStop or to its end, where the run goes on
\* to syncVolume with the list.  On failure the manager returns
\* (stoppedIDs, err), stopContainers returns (nil, err), the backup is
\* skipped and restartContainers(nil) returns at once.
ContainerStop(r) ==
    /\ runs[r].pc = "stopping"
    /\ LET c == runs[r].listing[runs[r].idx]
           i == NextStop(runs[r].listing, runs[r].idx + 1)
       IN  \E ok \in BOOLEAN :
             IF ok
             THEN /\ running' = running \ {c}
                  /\ runs' = [runs EXCEPT
                        ![r].stopCalls = Append(@, c),
                        ![r].stoppedIDs = Append(@, c),
                        ![r].idx = i,
                        ![r].pc = IF i > Len(runs[r].listing) THEN "sync" ELSE "stopping",
                        ![r].stopped = IF i > Len(runs[r].listing)
                                       THEN Append(runs[r].stoppedIDs, c) ELSE @,
                        ![r].stopErr = IF i > Len(runs[r].listing) THEN "nil" ELSE @,
                        ![r].syncErr = IF i > Len(runs[r].listing) THEN "running" ELSE @]
             ELSE /\ running' = running
                  /\ runs' = [runs EXCEPT
                        ![r].stopCalls = Append(@, c),
                        ![r].stopped = <<>>,
                        ![r].stopErr = "stop",
                        ![r].syncErr = "skipped",
                        ![r].restartErr = "nil",
                        ![r].pc = "done"]
    /\ UNCHANGED <<engineVars, setupVars, sentinel, mainPc, startups, boot, volumeName,
                   selfID, mounts>>

\* SyncVolumeReturns ending the process when the backup failed.
SyncVolumeReturnsFatal(r) ==
    /\ runs[r].pc = "sync"
    /\ \E e \in {"nil", "err"} :
         /\ runs' = [q \in RunIds |->
               IF q = r
               THEN [runs[r] EXCEPT
                       !.syncErr = e,
                       !.idx = 1,
                       !.pc = IF e = "err" THEN "killed"
                              ELSE IF Len(runs[r].stopped) = 0 THEN "done"
                              ELSE "starting",
                       !.restartErr = IF e = "nil" /\ Len(runs[r].stopped) = 0
                                      THEN "nil" ELSE @]
               ELSE IF e = "err" /\ runs[q].pc \notin {"idle", "done"}
               THEN [runs[q] EXCEPT !.pc = "killed"]
               ELSE runs[q]]
         /\ mainPc' = IF e = "err" THEN "exited" ELSE mainPc
    /\ UNCHANGED <<engineVars, setupVars, sentinel, startups, boot, volumeName,
                   selfID, mounts, running>>

\* syncVolume returns: Sync(VolumePath, S3Path) gave nil or an error, which
\* is logged.  restartContainers returns nil at once when nothing was
\* stopped and calls StartContainers otherwise.
SyncVolumeReturns(r) ==
    /\ runs[r].pc = "sync"
    /\ \E e \in {"nil", "err"} :
         runs' = [runs EXCEPT
            ![r].syncErr = e,
            ![r].idx = 1,
            ![r].pc = IF Len(runs[r].stopped) = 0 THEN "done" ELSE "starting",
            ![r].restartErr = IF Len(runs[r].stopped) = 0 THEN "nil" ELSE @]
    /\ UNCHANGED <<engineVars, setupVars, sentinel, mainPc, startups, boot, volumeName,
                   selfID, mounts, running>>

\* ContainerStart returning the error of a start that failed, the IDs that
\* follow not being started.
ContainerStartOrReturn(r) ==
    /\ runs[r].pc = "starting"
    /\ LET c == runs[r].stopped[runs[r].idx]
           last == runs[r].idx = Len(runs[r].stopped)
       IN  \E ok \in BOOLEAN :
             /\ running' = IF ok THEN running \cup {c} ELSE running
             /\ runs' = [runs EXCEPT
                   ![r].startCalls = Append(@, c),
                   ![r].startFailed = IF ok THEN @ ELSE @ \cup {c},
                   ![r].idx = @ + 1,
                   ![r].pc = IF last \/ ~ok THEN "done" ELSE "starting",
                   ![r].restartErr = IF ~ok THEN "start" ELSE IF last THEN "nil" ELSE @]
    /\ UNCHANGED <<engineVars, setupVars, sentinel, mainPc, startups, boot, volumeName,
                   selfID, mounts>>

\* StartContainers, one iteration: m.client.ContainerStart(ctx, id, ...);
\* a failure is logged and the loop goes on; after the last ID
\* StartContainers returns nil and so does restartContainers.
ContainerStart(r) ==
    /\ runs[r].pc = "starting"
    /\ LET c == runs[r].stopped[runs[r].idx]
           last == runs[r].idx = Len(runs[r].stopped)
       IN  \E ok \in BOOLEAN :
             /\ running' = IF ok THEN running \cup {c} ELSE running
             /\ runs' = [runs EXCEPT
                   ![r].startCalls = Append(@, c),
                   ![r].startFailed = IF ok THEN @ ELSE @ \cup {c},
                   ![r].idx = @ + 1,
                   ![r].pc = IF last THEN "done" ELSE "starting",
                   ![r].restartErr = IF last THEN "nil" ELSE @]
    /\ UNCHANGED <<engineVars, setupVars, sentinel, mainPc, startups, boot, volumeName,
                   selfID, mounts>>

\* ------------------------------------------------------------ cmd: main
\* What os.Stat(sentinelPath) returns: nil when the file exists, an error
\* satisfying os.IsNotExist when it does not, or, either way, another
\* error (the volume path cannot be searched, is not a directory, ...).
StatOutcomes(exists) ==
    (IF exists THEN {"nil"} ELSE {"ErrNotExist"}) \cup {"error"}

\* initialSync up to the call of Sync: when os.IsNotExist(err) the restore
\* Sync(S3Path, VolumePath) is called, otherwise it is skipped.
InitialSync ==
    /\ mainPc = "initialSync"
    /\ \E st \in StatOutcomes(sentinel) :
         /\ boot' = [sentinel |-> sentinel, stat |-> st,
                     restore |-> IF st = "ErrNotExist" THEN "running" ELSE "skipped"]
         /\ mainPc' = IF st = "ErrNotExist" THEN "restore" ELSE "schedule"
    /\ UNCHANGED <<engineVars, setupVars, sentinel, startups, volumeName, selfID, mounts,
                   running, runs>>

\* The restore returns.  An error is fatal (log.Fatalf).  After nil the
\* sentinel is written with os.WriteFile; when that fails, which is fatal
\* too, the file may have been created all the same.
RestoreReturns ==
    /\ mainPc = "restore"
    /\ \E e \in {"nil", "err"}, w \in {"nil", "err"}, created \in BOOLEAN :
         IF e = "err"
         THEN /\ w = "nil" /\ ~created
              /\ boot' = [boot EXCEPT !.restore = "failed"]
              /\ sentinel' = sentinel
              /\ mainPc' = "exited"
         ELSE /\ w = "nil" => created
              /\ boot' = [boot EXCEPT !.restore = "ok"]
              /\ sentinel' = (sentinel \/ created)
              /\ mainPc' = IF w = "nil" THEN "schedule" ELSE "exited"
    /\ UNCHANGED <<engineVars, setupVars, startups, volumeName, selfID, mounts, running, runs>>

\* cron.New(), c.AddFunc(cfg.SyncSchedule, sync(...)), c.Start(): a schedule
\* that does not parse is fatal.
ScheduleBackup ==
    /\ mainPc = "schedule"
    /\ \E ok \in BOOLEAN : mainPc' = IF ok THEN "serving" ELSE "exited"
    /\ UNCHANGED <<engineVars, setupVars, sentinel, startups, boot, volumeName, selfID,
                   mounts, running, runs>>

\* SIGINT or SIGTERM: before signal.Notify the process is killed, after it
\* main stops the scheduler and returns; either way the process ends and
\* the runs in progress end with it.
Signal ==
    /\ mainPc \in {"restore", "schedule", "serving"}
    /\ mainPc' = "exited"
    /\ boot' = IF mainPc = "restore" THEN [boot EXCEPT !.restore = "killed"] ELSE boot
    /\ runs' = [r \in RunIds |->
                  IF runs[r].pc \in {"idle", "done"} THEN runs[r]
                  ELSE [runs[r] EXCEPT !.pc = "killed"]]
    /\ UNCHANGED <<engineVars, setupVars, sentinel, startups, volumeName, selfID, mounts,
                   running>>

\* The process is started again on the same volume (the container's
\* restart policy, or the operator).
Restart ==
    /\ mainPc = "exited"
    /\ startups < MaxStartups
    /\ startups' = startups + 1
    /\ mainPc' = "initialSync"
    /\ boot' = NoBoot
    /\ runs' = [r \in RunIds |-> NewRun]
    /\ UNCHANGED <<engineVars, setupVars, sentinel, volumeName, selfID, mounts, running>>

\* MainSpec: the process from its first start on a volume whose sentinel
\* exists or not, with VOLUME_NAME set or not.  Container 1 is the
\* program's own; every container mounts the volume and is running.
MainInit ==
    /\ sentinel \in BOOLEAN
    /\ mainPc = "initialSync"
    /\ startups = 1
    /\ boot = NoBoot
    /\ volumeName \in {"data", ""}
    /\ selfID = Chars("a", ShortIDLen)
    /\ mounts = [c \in Containers |-> <<Mount("volume", "data")>>]
    /\ running = Containers
    /\ runs = [r \in RunIds |-> NewRun]
    /\ EngineUnseen
    /\ SetupUnseen

MainNext ==
    \/ InitialSync
    \/ RestoreReturns
    \/ ScheduleBackup
    \/ Signal
    \/ Restart
    \/ \E r \in RunIds : RunSync(r)
    \/ \E r \in RunIds : ContainerStop(r)
    \/ \E r \in RunIds : SyncVolumeReturns(r)
    \/ \E r \in RunIds : ContainerStart(r)

MainSpec == MainInit /\ [][MainNext]_vars

\* DockerSpec: the scheduled runs of a process that is serving, over every
\* host name of SelfIDs and every assignment of MountMenus to the
\* containers, all of them running.
DockerInit ==
    /\ sentinel = TRUE
    /\ mainPc = "serving"
    /\ startups = 1
    /\ boot = [sentinel |-> TRUE, stat |-> "nil", restore |-> "skipped"]
    /\ volumeName = "data"
    /\ selfID \in SelfIDs
    /\ mounts \in [Containers -> MountMenus]
    /\ running = Containers
    /\ runs = [r \in RunIds |-> NewRun]
    /\ EngineUnseen
    /\ SetupUnseen

DockerNext ==
    \/ \E r \in RunIds : RunSync(r)
    \/ \E r \in RunIds : ContainerStop(r)
    \/ \E r \in RunIds : SyncVolumeReturns(r)
    \/ \E r \in RunIds : ContainerStart(r)

DockerSpec == DockerInit /\ [][DockerNext]_vars

\* ================================================= strings, keys and paths
\* Strings are sequences of characters.  Keys and paths are written with
\* the characters of KeyChars.
KeyChars == {"a", "/"}
Strings(n) == UNION {[1..k -> KeyChars] : k \in 0..n}
Keys == Strings(MaxKeyLen) \ {<<>>}
Prefixes == Strings(MaxPrefixLen)

\* The byte value of a character.
Rank(ch) ==
    CASE ch = " " -> 32 [] ch = "+" -> 43 [] ch = "-" -> 45 [] ch = "." -> 46
      [] ch = "/" -> 47 [] ch = "0" -> 48 [] ch = "1" -> 49 [] ch = "2" -> 50
      [] OTHER -> 97

\* a < b in byte order, the order in which ListObjectsV2 returns keys and
\* WalkDir visits the names of a directory.
RECURSIVE LessStr(_, _)
LessStr(a, b) ==
    IF b = <<>> THEN FALSE
    ELSE IF a = <<>> THEN TRUE
    ELSE IF a[1] = b[1]
         THEN LessStr(SubSeq(a, 2, Len(a)), SubSeq(b, 2, Len(b)))
         ELSE Rank(a[1]) < Rank(b[1])

RECURSIVE SortStrings(_)
SortStrings(S) ==
    IF S = {} THEN <<>>
    ELSE LET m == CHOOSE x \in S : \A y \in S \ {x} : LessStr(x, y)
         IN  <<m>> \o SortStrings(S \ {m})

\* strings.HasPrefix, strings.TrimPrefix
HasPrefix(str, pre) ==
    Len(pre) <= Len(str) /\ SubSeq(str, 1, Len(pre)) = pre
TrimPrefix(str, pre) ==
    IF HasPrefix(str, pre) THEN SubSeq(str, Len(pre) + 1, Len(str)) ELSE str

\* The elements of a path between its separators.
RECURSIVE SplitSlash(_)
SplitSlash(str) ==
    LET I == {i \in 1..Len(str) : str[i] = "/"}
    IN  IF I = {} THEN <<str>>
        ELSE LET i == CHOOSE x \in I : \A y \in I : x <= y
             IN  <<SubSeq(str, 1, i - 1)>> \o SplitSlash(SubSeq(str, i + 1, Len(str)))

\* strings.Join(elems, "/")
RECURSIVE JoinSlash(_)
JoinSlash(els) ==
    IF els = <<>> THEN <<>>
    ELSE IF Len(els) = 1 THEN els[1]
    ELSE els[1] \o <<"/">> \o JoinSlash(Tail(els))

\* filepath.Clean, the element loop: empty elements and "." are dropped,
\* ".." removes the element before it, is dropped at the root of a rooted
\* path and is kept at the start of a relative one.
RECURSIVE CleanElems(_, _, _)
CleanElems(els, out, rooted) ==
    IF els = <<>> THEN out
    ELSE LET e == Head(els)
             rest == Tail(els)
         IN  IF e = <<>> \/ e = <<".">> THEN CleanElems(rest, out, rooted)
             ELSE IF e = <<".", ".">>
             THEN IF out # <<>> /\ out[Len(out)] # <<".", ".">>
                  THEN CleanElems(rest, SubSeq(out, 1, Len(out) - 1), rooted)
                  ELSE IF rooted THEN CleanElems(rest, out, rooted)
                  ELSE CleanElems(rest, Append(out, e), rooted)
             ELSE CleanElems(rest, Append(out, e), rooted)

\* filepath.Clean
Clean(path) ==
    IF path = <<>> THEN <<".">>
    ELSE LET rooted == path[1] = "/"
             body == JoinSlash(CleanElems(SplitSlash(path), <<>>, rooted))
             res == IF rooted THEN <<"/">> \o body ELSE body
         IN  IF res = <<>> THEN <<".">> ELSE res

\* filepath.Join(a, b): empty elements are ignored, the rest is joined with
\* the separator and cleaned; "" when both are empty.
Join(a, b) ==
    IF a = <<>> /\ b = <<>> THEN <<>>
    ELSE IF a = <<>> THEN Clean(b)
    ELSE Clean(a \o <<"/">> \o b)

\* filepath.Rel(root, path) for a path WalkDir passes: root itself or a
\* path below it.
Rel(base, path) ==
    IF path = base THEN <<".">>
    ELSE SubSeq(path, Len(base) + 2, Len(path))

\* The key the download, upload and remote delete closures build:
\*     key := filepath.Join(prefix, relPath)
\*     key = strings.TrimPrefix(key, "/")
ExecutorKey(pre, relPath) == TrimPrefix(Join(pre, relPath), <<"/">>)

\* ------------------------------------------------------- ListS3Objects
\* The relative path ListS3Objects computes for a key, or skip: with a
\* prefix, a key that lacks it is skipped and the prefix and then one
\* leading separator are trimmed; an empty relative path is skipped.
ListRelPath(pre, key) ==
    LET rel == IF pre # <<>>
               THEN TrimPrefix(TrimPrefix(key, pre), <<"/">>)
               ELSE key
    IN  IF pre # <<>> /\ ~HasPrefix(key, pre) THEN [skip |-> TRUE, relPath |-> <<>>]
        ELSE IF rel = <<>> THEN [skip |-> TRUE, relPath |-> <<>>]
        ELSE [skip |-> FALSE, relPath |-> rel]

\* `for _, obj := range page.Contents`: the map after the keys of a page.
RECURSIVE AddContents(_, _, _, _)
AddContents(m, page, pre, f) ==
    IF page = <<>> THEN m
    ELSE LET key == Head(page)
             r == ListRelPath(pre, key)
         IN  IF r.skip \/ Skipped(f, r.relPath)
             THEN AddContents(m, Tail(page), pre, f)
             ELSE AddContents([q \in DOMAIN m \cup {r.relPath} |->
                                 IF q = r.relPath THEN [Key |-> key] ELSE m[q]],
                              Tail(page), pre, f)

\* ListS3Objects is called: the paginator will return the bucket's keys
\* that begin with the prefix, in byte order.
ListS3Objects ==
    /\ listPc = "idle"
    /\ contents' = SortStrings({k \in bucket : HasPrefix(k, prefix)})
    /\ objs' = EmptyMap
    /\ listPc' = "paging"
    /\ UNCHANGED <<engineVars, sentinel, mainPc, startups, boot, volumeName,
                   selfID, mounts, running, runs, env, cfg, prefix, bucket,
                   root, tree, walkPc, entries, objects, keyCall>>

\* `for paginator.HasMorePages()`: after the last page the map is
\* returned; otherwise NextPage fails, and (nil, err) is returned, or gives
\* the next page, whose keys are added.
ListNextPage ==
    /\ listPc = "paging"
    /\ IF contents = <<>>
       THEN /\ listPc' = "returned"
            /\ UNCHANGED <<contents, objs>>
       ELSE \E ok \in BOOLEAN :
              IF ok
              THEN LET n == IF Len(contents) < MaxKeysPerPage
                            THEN Len(contents) ELSE MaxKeysPerPage
                   IN  /\ objs' = AddContents(objs, SubSeq(contents, 1, n), prefix, filter)
                       /\ contents' = SubSeq(contents, n + 1, Len(contents))
                       /\ listPc' = listPc
              ELSE /\ objs' = EmptyMap
                   /\ contents' = <<>>
                   /\ listPc' = "failed"
    /\ UNCHANGED <<engineVars, sentinel, mainPc, startups, boot, volumeName,
                   selfID, mounts, running, runs, env, cfg, prefix, bucket,
                   root, tree, walkPc, entries, objects, keyCall>>

\* ------------------------------------------------------------- WalkLocal
\* The WalkDir callback on one entry without error: a directory is passed
\* over, a relative path the filter rejects too, and any other entry is
\* added under its path relative to root.
WalkEntry(m, base, path, kind, f) ==
    LET relPath == Rel(base, path)
    IN  IF kind = "dir" THEN m
        ELSE IF Skipped(f, relPath) THEN m
        ELSE [q \in DOMAIN m \cup {relPath} |->
                IF q = relPath THEN [Key |-> relPath] ELSE m[q]]

\* WalkLocal is called once the remote listing has returned (the order of
\* syncS3ToLocal): WalkDir will visit root and what is below it.
WalkLocal ==
    /\ walkPc = "idle"
    /\ listPc = "returned"
    /\ entries' = SortStrings(DOMAIN tree)
    /\ objects' = EmptyMap
    /\ walkPc' = "walking"
    /\ UNCHANGED <<engineVars, sentinel, mainPc, startups, boot, volumeName,
                   selfID, mounts, running, runs, env, cfg, prefix, bucket,
                   root, tree, listPc, contents, objs, keyCall>>

\* WalkDir calls the callback on the next entry, or has none left and
\* WalkLocal returns the map.  When the entry cannot be read (err != nil)
\* or d.Info() fails, the walk ends and WalkLocal returns (nil, err).
WalkDirStep ==
    /\ walkPc = "walking"
    /\ IF entries = <<>>
       THEN /\ walkPc' = "returned"
            /\ UNCHANGED <<entries, objects>>
       ELSE \E ok \in BOOLEAN :
              IF ok
              THEN /\ objects' = WalkEntry(objects, root, Head(entries),
                                           tree[Head(entries)], filter)
                   /\ entries' = Tail(entries)
                   /\ walkPc' = walkPc
              ELSE /\ objects' = EmptyMap
                   /\ entries' = <<>>
                   /\ walkPc' = "failed"
    /\ UNCHANGED <<engineVars, sentinel, mainPc, startups, boot, volumeName,
                   selfID, mounts, running, runs, env, cfg, prefix, bucket,
                   root, tree, listPc, contents, objs, keyCall>>

\* ------------------------------------------------------------- executors
\* An executor of executeSync makes its remote call, both snapshots having
\* been taken: a download (S3 to local) for a path of the remote snapshot,
\* or, local to S3, an upload for a path of the local snapshot or a delete
\* for a path of the remote snapshot the local one lacks.
ExecutorCall ==
    /\ listPc = "returned" /\ walkPc = "returned"
    /\ \E fn \in {"download", "upload", "delete"} :
         \E relPath \in (IF fn = "download" THEN DOMAIN objs
                         ELSE IF fn = "upload" THEN DOMAIN objects
                         ELSE DOMAIN objs \ DOMAIN objects) :
            keyCall' = [fn |-> fn, relPath |-> relPath,
                        key |-> ExecutorKey(prefix, relPath)]
    /\ UNCHANGED <<engineVars, sentinel, mainPc, startups, boot, volumeName,
                   selfID, mounts, running, runs, env, cfg, prefix, bucket,
                   root, tree, listPc, contents, objs, walkPc, entries, objects>>

\* ------------------------------------------------------------- EnumSpec
\* The local endpoint: root and what is below it.
LocalRoot == <<"/", "v">>
Below(name) == LocalRoot \o <<"/">> \o name
LocalTrees ==
    { [p \in {LocalRoot} |-> "dir"],
      [p \in {LocalRoot, Below(<<"a">>)} |->
          IF p = LocalRoot THEN "dir" ELSE "file"],
      [p \in {LocalRoot, Below(<<"a">>), Below(<<"a", "/", "a">>)} |->
          IF p = Below(<<"a", "/", "a">>) THEN "file" ELSE "dir"],
      [p \in {LocalRoot, Below(<<"a">>), Below(<<"a", "a">>)} |->
          IF p = Below(<<"a">>) THEN "file" ELSE "dir"] }

\* EnumSpec: the two enumerations of one Sync and the remote calls of its
\* executors, over every prefix, every bucket of up to MaxObjects keys,
\* the trees of LocalTrees, and no filter or one that rejects "a".
EnumInit ==
    /\ prefix \in Prefixes
    /\ bucket \in {B \in SUBSET Keys : Cardinality(B) <= MaxObjects}
    /\ root = LocalRoot
    /\ tree \in LocalTrees
    /\ filter \in {NilFilter, Predicate(Strings(MaxKeyLen) \ {<<"a">>})}
    /\ env = <<>> /\ cfg = 0
    /\ listPc = "idle" /\ contents = <<>> /\ objs = EmptyMap
    /\ walkPc = "idle" /\ entries = <<>> /\ objects = EmptyMap
    /\ keyCall = NoKeyCall
    /\ srcStore = EmptyMap /\ dstStore = EmptyMap
    /\ srcIsS3 = TRUE /\ dstIsS3 = FALSE
    /\ deleteDestination = FALSE
    /\ concurrency = 1
    /\ NoCall
    /\ sentinel = FALSE
    /\ mainPc = "none"
    /\ startups = 0
    /\ boot = NoBoot
    /\ volumeName = ""
    /\ selfID = <<>>
    /\ mounts = [c \in Containers |-> <<>>]
    /\ running = {}
    /\ runs = [r \in RunIds |-> NewRun]

EnumNext ==
    \/ ListS3Objects
    \/ ListNextPage
    \/ WalkLocal
    \/ WalkDirStep
    \/ ExecutorCall

EnumSpec == EnumInit /\ [][EnumNext]_vars

\* ================================================================ config
\* The characters of SYNC_CONCURRENCY's value.
EnvChars == {"0", "1", "2", "-", "+", " ", "a"}
EnvValues == UNION {[1..k -> EnvChars] : k \in 0..MaxEnvLen}
Digits == {"0", "1", "2"}
DigitValue(ch) == IF ch = "0" THEN 0 ELSE IF ch = "1" THEN 1 ELSE 2

\* The value of a string of decimal digits.
RECURSIVE Decimal(_)
Decimal(ds) ==
    IF ds = <<>> THEN 0
    ELSE 10 * Decimal(SubSeq(ds, 1, Len(ds) - 1)) + DigitValue(ds[Len(ds)])

\* The longest run of characters of S at the start of str.
RECURSIVE Leading(_, _)
Leading(str, S) ==
    IF str = <<>> \/ str[1] \notin S THEN <<>>
    ELSE <<str[1]>> \o Leading(SubSeq(str, 2, Len(str)), S)

\* fmt.Sscanf(str, "%d", &c): leading spaces are skipped, one sign is
\* accepted, then the digits that follow are read; what comes after them
\* is left unread and is no error.  No digit is an error.  (A number
\* outside int64 is an error too; no value of MaxEnvLen digits is.)
Sscanf(str) ==
    LET sp == Leading(str, {" "})
        s1 == SubSeq(str, Len(sp) + 1, Len(str))
        neg == s1 # <<>> /\ s1[1] = "-"
        s2 == IF s1 # <<>> /\ s1[1] \in {"+", "-"} THEN SubSeq(s1, 2, Len(s1)) ELSE s1
        ds == Leading(s2, Digits)
    IN  IF ds = <<>> THEN [err |-> "expected integer", c |-> 0]
        ELSE [err |-> "nil", c |-> IF neg THEN 0 - Decimal(ds) ELSE Decimal(ds)]

\* config.Load, the concurrency: 16 unless SYNC_CONCURRENCY is non-empty,
\* Sscanf reads an integer from it without error and the integer is > 0.
LoadConcurrency(str) ==
    IF str # <<>> /\ Sscanf(str).err = "nil" /\ Sscanf(str).c > 0
    THEN Sscanf(str).c
    ELSE DefaultConcurrency

\* main: config.Load() returns the configuration, or an error (S3_PATH or
\* SYNC_SCHEDULE missing, a grace period that does not parse), which is
\* fatal.
ConfigLoad ==
    /\ mainPc = "load"
    /\ \E ok \in BOOLEAN :
         IF ok
         THEN /\ cfg' = LoadConcurrency(env)
              /\ mainPc' = "new"
         ELSE /\ cfg' = cfg
              /\ mainPc' = "exited"
    /\ UNCHANGED <<engineVars, sentinel, startups, boot, volumeName, selfID,
                   mounts, running, runs, env, prefix, bucket, root, tree,
                   listPc, contents, objs, walkPc, entries, objects, keyCall>>

\* main: syncer.New(ctx, WithConcurrency(cfg.Concurrency), WithDelete(...),
\* WithFilter(...)): the options overwrite New's defaults; New fails, which
\* is fatal, when the AWS configuration cannot be loaded.
NewSyncer ==
    /\ mainPc = "new"
    /\ \E ok \in BOOLEAN :
         IF ok
         THEN /\ concurrency' = cfg
              /\ deleteDestination' \in BOOLEAN
              /\ filter' = Predicate(Paths)
              /\ mainPc' = "initialSync"
         ELSE /\ UNCHANGED <<concurrency, deleteDestination, filter>>
              /\ mainPc' = "exited"
    /\ UNCHANGED <<storeVars, srcIsS3, dstIsS3, run, pc, srcObjs, dstObjs, iter,
                   pending, jobs, jobsClosed, errChan, ctxErr, callerErr, wg,
                   workers, result, prevResult, enumLog, histVars,
                   sentinel, startups, boot, volumeName, selfID, mounts,
                   running, runs, setupVars>>

\* The first Sync of the process reaches executeSync and starts its pool.
FirstSync ==
    /\ mainPc = "initialSync"
    /\ SyncCall

\* ConfigSpec: the process from its start to the pool of its first Sync,
\* over every value of SYNC_CONCURRENCY of up to MaxEnvLen characters.
ConfigInit ==
    /\ env \in EnvValues
    /\ cfg = 0
    /\ prefix = <<>> /\ bucket = {}
    /\ root = <<>> /\ tree = EmptyMap
    /\ listPc = "idle" /\ contents = <<>> /\ objs = EmptyMap
    /\ walkPc = "idle" /\ entries = <<>> /\ objects = EmptyMap
    /\ keyCall = NoKeyCall
    /\ srcStore = EmptyMap /\ dstStore = EmptyMap
    /\ srcIsS3 = TRUE /\ dstIsS3 = FALSE
    /\ filter = NilFilter
    /\ deleteDestination = FALSE
    /\ concurrency = 0
    /\ NoCall
    /\ sentinel \in BOOLEAN
    /\ mainPc = "load"
    /\ startups = 1
    /\ boot = NoBoot
    /\ volumeName = ""
    /\ selfID = <<>>
    /\ mounts = [c \in Containers |-> <<>>]
    /\ running = {}
    /\ runs = [r \in RunIds |-> NewRun]

ConfigNext ==
    \/ ConfigLoad
    \/ NewSyncer
    \/ FirstSync

ConfigSpec == ConfigInit /\ [][ConfigNext]_vars

\* ------------------------------------------------------------ properties
\* The jobs of Plan(S, D, deleteEnabled): what the two range loops submit
\* when nothing cuts them short.
PlanJobs(S, D, del) ==
    {Job(p, "copy") : p \in {q \in DOMAIN S : ShouldCopy(S, D, q)}}
    \cup (IF del
          THEN {Job(p, "delete") : p \in {q \in DOMAIN D : ShouldDelete(S, D, q)}}
          ELSE {})

RECURSIVE CopiesOf(_)
CopiesOf(W) == IF W = {} THEN 0
               ELSE LET w == CHOOSE v \in W : TRUE
                    IN  CopiesIn(w, workers) + CopiesOf(W \ {w})
InFlight == CopiesOf({w \in Live : w.st = "exec"})
Failed(j) == outcome[j] \in {"io", "ctx"}
\* j is the one job whose executor failed by itself.
OnlyFailure(j) ==
    /\ outcome[j] = "io"
    /\ \A k \in AllJobs \ {j} : outcome[k] # "io"

\* C1: when exactly one job fails by itself and the caller's context is not
\* cancelled, Sync with at least one worker returns that job's error (the
\* jobs aborted by the cancellation it triggers do not count as failing).
C1_FailFastResult ==
    (pc = "returned" /\ callerErr = "nil" /\ concurrency >= 1) =>
        \A j \in AllJobs : OnlyFailure(j) => result = JobError(j, "io")

\* Two workers, at least two jobs queued, one failed by itself, another was
\* aborted by the cancellation, and Sync has returned.
C1_Witness ==
    /\ pc = "returned" /\ callerErr = "nil" /\ concurrency = 2
    /\ Len(enqueued) >= 2
    /\ \E j \in AllJobs : OnlyFailure(j) /\ result = JobError(j, "io")
    /\ \E k \in AllJobs : outcome[k] = "ctx"

\* C2: with at least one worker, as long as no job has failed and the caller
\* has not cancelled, only planned jobs are executed and none twice; when
\* Sync returns, every planned job has been executed exactly once.
C2_PlanExecutedOnce ==
    (concurrency >= 1 /\ callerErr = "nil" /\ \A j \in AllJobs : ~Failed(j)) =>
        LET plan == PlanJobs(srcObjs, dstObjs, deleteDestination)
        IN  /\ \A j \in AllJobs : execCount[j] <= 1
            /\ \A j \in AllJobs : execCount[j] = 1 => j \in plan
            /\ pc = "returned" =>
                 \A j \in plan : execCount[j] = 1 /\ outcome[j] = "ok"

\* A plan of copies and deletes larger than the queue and the single worker
\* together can hold has been executed completely.
C2_Witness ==
    /\ pc = "returned" /\ concurrency = 1 /\ callerErr = "nil"
    /\ \A j \in AllJobs : ~Failed(j)
    /\ LET plan == PlanJobs(srcObjs, dstObjs, deleteDestination)
       IN  /\ Cardinality(plan) > JobsCap + 1
           /\ \E j \in plan : j.fn = "copy"
           /\ \E j \in plan : j.fn = "delete"
           /\ \A j \in plan : execCount[j] = 1

\* C3: once the cancellation triggered by a failed job has fired (the caller
\* has not cancelled), no worker receives a further job.
C3_NoDispatchAfterCancel ==
    callerErr = "nil" => lateDispatch = {}

\* C4: at most `concurrency` executor invocations are in flight.
C4_ConcurrencyBound == InFlight <= concurrency

\* Every worker is inside an executor while a job still waits in the queue.
C4_Witness ==
    /\ concurrency = MaxConcurrency
    /\ InFlight = concurrency
    /\ jobs # <<>>

\* C5: when Sync has returned, every worker has exited and no executor
\* invocation is in flight.
C5_WorkersExitedOnReturn ==
    pc = "returned" =>
        /\ wg = 0
        /\ workers = EmptyBag
        /\ \A j \in AllJobs : outcome[j] # "running"

\* Sync has returned an error after two workers ran jobs.
C5_Witness ==
    /\ pc = "returned" /\ concurrency = 2
    /\ result # NoErr
    /\ workers = EmptyBag
    /\ \E j \in AllJobs : outcome[j] = "ok"

\* Sync has returned nil after two workers ran a plan.
C5_WitnessSuccess ==
    /\ pc = "returned" /\ concurrency = 2
    /\ result = NoErr
    /\ workers = EmptyBag
    /\ Cardinality({j \in AllJobs : outcome[j] = "ok"}) >= 2

\* C6: with at least one worker and executors that return, Sync eventually
\* returns, whatever the plan size and whichever jobs fail.
C6_ExecuteTerminates ==
    (concurrency >= 1) => <>(pc = "returned")

\* The producer is blocked on a full queue after the only worker has failed
\* and cancelled: cancellation is what releases it.
C6_Witness ==
    /\ concurrency = 1
    /\ pending # NoJob /\ Len(jobs) = JobsCap
    /\ workers = EmptyBag
    /\ ctxErr = "Canceled" /\ callerErr = "nil"

\* A worker is blocked on the empty queue, the producer being done: closing
\* the queue is what releases it.
C6_WitnessWorkerBlocked ==
    /\ concurrency >= 1
    /\ pc = "close" /\ jobs = <<>> /\ ctxErr = "nil"
    /\ \E w \in Live : w.st = "select"
    /\ Len(enqueued) > JobsCap

EnqueuedPaths(f) == {j.path : j \in {k \in Range(enqueued) : k.fn = f}}

\* The copy rule as the specification words it.
CopyRule(S, D, p) ==
    /\ p \in DOMAIN S
    /\ \/ p \notin DOMAIN D
       \/ S[p].size # D[p].size
       \/ (S[p].size = D[p].size /\ S[p].mtime > D[p].mtime)

\* C8: a copy job is only ever submitted for a path the copy rule selects,
\* and once the copy loop has run to its end uncancelled the copy jobs
\* enqueued are exactly the paths the rule selects.
C8_CopyDecision ==
    /\ \A p \in EnqueuedPaths("copy") : CopyRule(srcObjs, dstObjs, p)
    /\ (pending.fn = "copy") => CopyRule(srcObjs, dstObjs, pending.path)
    /\ (pc \in {"delete", "close", "wait"} /\ ctxErr = "nil") =>
          EnqueuedPaths("copy") = {p \in Paths : CopyRule(srcObjs, dstObjs, p)}

\* The copy loop has ended uncancelled, having skipped a path whose
\* destination is newer and of equal size.
C8_Witness ==
    /\ pc = "delete" /\ ctxErr = "nil"
    /\ \E p \in DOMAIN srcObjs \cap DOMAIN dstObjs :
         /\ srcObjs[p].size = dstObjs[p].size
         /\ srcObjs[p].mtime < dstObjs[p].mtime
         /\ p \notin EnqueuedPaths("copy")

\* The copy loop has ended uncancelled, having enqueued a path whose sizes
\* differ although the destination is newer.
C8_WitnessSize ==
    /\ pc = "delete" /\ ctxErr = "nil"
    /\ \E p \in DOMAIN srcObjs \cap DOMAIN dstObjs :
         /\ srcObjs[p].size # dstObjs[p].size
         /\ srcObjs[p].mtime < dstObjs[p].mtime
         /\ p \in EnqueuedPaths("copy")

\* C9: with deletion enabled, once the delete loop has run to its end
\* uncancelled the delete jobs enqueued are exactly the destination's paths
\* absent from the source, and no other path ever gets one; with deletion
\* disabled no delete job is submitted and the delete executor never runs.
C9_DeleteDecision ==
    /\ \A p \in EnqueuedPaths("delete") :
          p \in DOMAIN dstObjs /\ p \notin DOMAIN srcObjs
    /\ (pending.fn = "delete") =>
          pending.path \in DOMAIN dstObjs \ DOMAIN srcObjs
    /\ (deleteDestination /\ pc \in {"close", "wait"} /\ ctxErr = "nil") =>
          EnqueuedPaths("delete") = DOMAIN dstObjs \ DOMAIN srcObjs
    /\ ~deleteDestination =>
          /\ EnqueuedPaths("delete") = {} /\ pending.fn # "delete"
          /\ \A p \in Paths : execCount[Job(p, "delete")] = 0

\* Deletion enabled: a destination-only path was deleted while a path on
\* both sides with different sizes and times got no delete job.
C9_Witness ==
    /\ deleteDestination /\ pc = "returned" /\ result = NoErr
    /\ \E p \in DOMAIN dstObjs \ DOMAIN srcObjs :
         execCount[Job(p, "delete")] = 1 /\ p \notin DOMAIN dstStore

\* Deletion disabled: Sync returned with a destination-only path left alone.
C9_WitnessDisabled ==
    /\ ~deleteDestination /\ pc = "returned" /\ result = NoErr
    /\ concurrency = 1
    /\ \E p \in DOMAIN dstObjs \ DOMAIN srcObjs : p \in DOMAIN dstStore

\* C10: after a Sync with at least one worker returned nil, a second Sync
\* between the same endpoints submits no job.
C10_SecondSyncIsNoOp ==
    (run = "second" /\ prevResult = NoErr /\ concurrency >= 1) =>
        enqueued = <<>> /\ pending = NoJob

\* Supporting fact for C10: when a Sync with at least one worker returns nil
\* and its caller's context was not cancelled, the plan computed from the
\* endpoints as it left them is empty.
IdempotentAbsentCallerCancel ==
    (pc = "returned" /\ result = NoErr /\ callerErr = "nil" /\ concurrency >= 1) =>
        PlanJobs(Enumerate(srcStore, filter), Enumerate(dstStore, filter),
                 deleteDestination) = {}

\* C11: a relative path the filter rejects is in neither snapshot, gets no
\* copy job and no delete job, and no executor is ever invoked for it,
\* whichever side stores it and whether or not deletion is enabled.
C11_FilteredPathUntouched ==
    \A p \in Paths : Skipped(filter, p) =>
        /\ p \notin DOMAIN srcObjs
        /\ p \notin DOMAIN dstObjs
        /\ pending.path # p
        /\ \A f \in {"copy", "delete"} :
              /\ Job(p, f) \notin Range(enqueued)
              /\ execCount[Job(p, f)] = 0

\* Deletion enabled: Sync returned nil having deleted an accepted path that
\* only the destination stored, while a rejected path that only the
\* destination stores is still there.
C11_Witness ==
    /\ deleteDestination /\ pc = "returned" /\ result = NoErr
    /\ \E p \in Paths :
         /\ Skipped(filter, p)
         /\ p \in DOMAIN dstStore \ DOMAIN srcStore
    /\ \E q \in Paths :
         /\ ~Skipped(filter, q)
         /\ execCount[Job(q, "delete")] = 1 /\ q \notin DOMAIN dstStore

\* A rejected path stored at the source only was not copied by a Sync that
\* returned nil.
C11_WitnessCopy ==
    /\ pc = "returned" /\ result = NoErr /\ concurrency = 1
    /\ \E p \in Paths :
         /\ Skipped(filter, p)
         /\ p \in DOMAIN srcStore \ DOMAIN dstStore

\* C12: Sync with both endpoints remote or both local returns the
\* unsupported-mode error having made no enumeration and submitted or
\* executed no job; an enumeration is only ever made with exactly one
\* endpoint remote.
C12_UnsupportedModeNoIO ==
    /\ (srcIsS3 = dstIsS3) =>
          /\ pc \in {"idle", "returned"}
          /\ pc = "returned" => result = Unsupported
          /\ enumLog = <<>>
          /\ srcObjs = EmptyMap /\ dstObjs = EmptyMap
          /\ enqueued = <<>> /\ pending = NoJob
          /\ workers = EmptyBag
          /\ \A j \in AllJobs : execCount[j] = 0
    /\ (enumLog # <<>> \/ pc \notin {"idle", "returned"}) => srcIsS3 # dstIsS3

\* Sync between two remote endpoints that differ, deletion enabled and a
\* worker configured, has returned the unsupported-mode error.
C12_Witness ==
    /\ srcIsS3 /\ dstIsS3
    /\ pc = "returned" /\ result = Unsupported
    /\ deleteDestination /\ concurrency >= 1
    /\ DOMAIN srcStore # DOMAIN dstStore

\* Sync between two local endpoints has returned the unsupported-mode error.
C12_WitnessLocal ==
    /\ ~srcIsS3 /\ ~dstIsS3
    /\ pc = "returned" /\ result = Unsupported
    /\ DOMAIN srcStore # DOMAIN dstStore

\* An enumeration of the current call failed.
EnumFailed == \E i \in 1..Len(enumLog) : ~enumLog[i].ok

\* C13: when an enumeration has failed, Sync has returned that error, no
\* snapshot reached executeSync, no worker was started and no copy or
\* delete was submitted or executed.
C13_EnumerationErrorAborts ==
    EnumFailed =>
        /\ pc = "returned"
        /\ result = EnumError(enumLog[Len(enumLog)].side)
        /\ srcObjs = EmptyMap /\ dstObjs = EmptyMap
        /\ enqueued = <<>> /\ pending = NoJob
        /\ workers = EmptyBag
        /\ \A j \in AllJobs : execCount[j] = 0

\* The destination's enumeration failed after the source's succeeded, with
\* deletion enabled, a worker configured and files the destination lacks.
C13_Witness ==
    /\ pc = "returned"
    /\ Len(enumLog) = 2 /\ enumLog[1].ok /\ ~enumLog[2].ok
    /\ result = EnumError("dst")
    /\ deleteDestination /\ concurrency >= 1
    /\ DOMAIN srcStore \ DOMAIN dstStore # {}
    /\ DOMAIN dstStore # {}

\* The source's enumeration failed: the destination was not enumerated.
C13_WitnessSource ==
    /\ pc = "returned"
    /\ Len(enumLog) = 1 /\ ~enumLog[1].ok
    /\ result = EnumError("src")
    /\ deleteDestination /\ concurrency >= 1
    /\ DOMAIN dstStore # {}

\* C20 as stated: a path on both sides with equal size whose destination
\* copy is older than the source copy gets no copy job.
C20_OlderDestinationNotRecopied ==
    \A p \in DOMAIN srcObjs \cap DOMAIN dstObjs :
        (srcObjs[p].size = dstObjs[p].size /\ dstObjs[p].mtime < srcObjs[p].mtime) =>
            p \notin EnqueuedPaths("copy") /\ pending # Job(p, "copy")

\* C20, amended: a path on both sides with equal size is not recopied when
\* its destination copy is newer than the source copy or of the same age;
\* when the destination copy is older it is recopied.
C20_OnlyOlderDestinationRecopied ==
    \A p \in DOMAIN srcObjs \cap DOMAIN dstObjs :
        srcObjs[p].size = dstObjs[p].size =>
            /\ dstObjs[p].mtime >= srcObjs[p].mtime =>
                  p \notin EnqueuedPaths("copy") /\ pending # Job(p, "copy")
            /\ (dstObjs[p].mtime < srcObjs[p].mtime
                  /\ pc \in {"delete", "close", "wait"} /\ ctxErr = "nil") =>
                  p \in EnqueuedPaths("copy")

\* The copy loop has ended uncancelled, having enqueued a path of equal
\* size whose destination copy is older.
C20_Witness ==
    /\ pc = "delete" /\ ctxErr = "nil"
    /\ \E p \in DOMAIN srcObjs \cap DOMAIN dstObjs :
         /\ srcObjs[p].size = dstObjs[p].size
         /\ dstObjs[p].mtime < srcObjs[p].mtime
         /\ p \in EnqueuedPaths("copy")

\* The copy loop has ended uncancelled, having skipped a path of equal size
\* and equal age.
C20_WitnessSameAge ==
    /\ pc = "delete" /\ ctxErr = "nil"
    /\ \E p \in DOMAIN srcObjs \cap DOMAIN dstObjs :
         /\ srcObjs[p] = dstObjs[p]
         /\ p \notin EnqueuedPaths("copy")

\* C22: within one Sync every copy job is enqueued before any delete job:
\* no copy job follows a delete job in the queue's history, and no copy job
\* is being submitted or still to be submitted once a delete job is.
C22_CopiesBeforeDeletes ==
    /\ \A i, k \in 1..Len(enqueued) :
          (enqueued[i].fn = "delete" /\ enqueued[k].fn = "copy") => k < i
    /\ (EnqueuedPaths("delete") # {} \/ pending.fn = "delete") =>
          /\ pc \in {"delete", "close", "wait", "returned"}
          /\ pending.fn # "copy"

\* Two copy jobs and then a delete job have gone through a queue of
\* capacity one.
C22_Witness ==
    /\ Len(enqueued) = 3
    /\ enqueued[1].fn = "copy" /\ enqueued[2].fn = "copy"
    /\ enqueued[3].fn = "delete"

\* C24: whenever Sync returns nil, every job of the plan computed from the
\* two snapshots has been executed once and returned no error, for every
\* concurrency WithConcurrency accepts and also when the caller's context
\* is cancelled during the transfer.
C24_SuccessMeansComplete ==
    (pc = "returned" /\ result = NoErr /\ enumLog # <<>>) =>
        \A j \in PlanJobs(srcObjs, dstObjs, deleteDestination) :
            execCount[j] = 1 /\ outcome[j] = "ok"

\* Supporting fact for C24: with at least one worker and a context that
\* ended, if at all, with an error other than context.Canceled, a nil
\* return means the whole plan was executed once without error.
SuccessMeansCompleteAbsentCancel ==
    (pc = "returned" /\ result = NoErr /\ enumLog # <<>>
       /\ concurrency >= 1 /\ callerErr # "Canceled") =>
        \A j \in PlanJobs(srcObjs, dstObjs, deleteDestination) :
            execCount[j] = 1 /\ outcome[j] = "ok"

\* C25: while executeSync runs with the caller's context live, if the
\* derived context is cancelled then errChan already holds, at its head,
\* the error of a job that failed by itself; and the error Sync returns is
\* never that of a job the cancellation aborted.
C25_ErrorRecordedBeforeCancel ==
    callerErr = "nil" =>
        /\ (pc \notin {"idle", "returned"} /\ ctxErr # "nil") =>
              /\ errChan # <<>>
              /\ Head(errChan).cause = "io"
              /\ outcome[Job(Head(errChan).path, Head(errChan).fn)] = "io"
        /\ (pc = "returned" /\ result # NoErr) => result.cause # "ctx"

\* The cancellation has fired with two workers: one recorded its own
\* failure, the other's job was aborted by the cancellation and its error
\* was recorded behind the first.
C25_Witness ==
    /\ callerErr = "nil" /\ ctxErr = "Canceled" /\ pc # "returned"
    /\ Len(errChan) = 2
    /\ errChan[1].cause = "io" /\ errChan[2].cause = "ctx"

\* C26: no relative path gets both a copy job and a delete job, a delete
\* job never targets a path of the source snapshot, and no job is enqueued
\* twice: no two jobs of one Sync act on the same path.
C26_OneJobPerPath ==
    /\ EnqueuedPaths("copy") \cap EnqueuedPaths("delete") = {}
    /\ EnqueuedPaths("delete") \cap DOMAIN srcObjs = {}
    /\ pending.fn = "delete" =>
          pending.path \notin DOMAIN srcObjs \cup EnqueuedPaths("copy")
    /\ \A i, k \in 1..Len(enqueued) : enqueued[i].path = enqueued[k].path => i = k
    /\ pending # NoJob => pending.path \notin {j.path : j \in Range(enqueued)}

\* Deletion enabled: copy jobs and delete jobs were enqueued for different
\* paths, and a path stored on both sides got neither.
C26_Witness ==
    /\ deleteDestination
    /\ pc \in {"close", "wait", "returned"}
    /\ EnqueuedPaths("copy") # {} /\ EnqueuedPaths("delete") # {}
    /\ \E p \in DOMAIN srcObjs \cap DOMAIN dstObjs :
         p \notin EnqueuedPaths("copy") \cup EnqueuedPaths("delete")

\* C27: after the context has been cancelled the producer enqueues at most
\* one further job, copy and delete phase together, and takes up no new
\* job to submit.
C27_AtMostOneLateEnqueue ==
    /\ Len(lateEnqueue) <= 1
    /\ (lateEnqueue # <<>>) => pending = NoJob

\* The copy job the producer was submitting went into the queue after a
\* failed job had cancelled the context; the producer then closed the
\* queue, a delete job of the plan never having been submitted.
C27_Witness ==
    /\ callerErr = "nil" /\ ctxErr = "Canceled"
    /\ Len(lateEnqueue) = 1 /\ lateEnqueue[1].fn = "copy"
    /\ jobsClosed
    /\ deleteDestination
    /\ \E j \in PlanJobs(srcObjs, dstObjs, deleteDestination) :
         j.fn = "delete" /\ j \notin Range(enqueued)

\* ------------------------------------------------ properties: the program
\* Two IDs that both have a short ID and have the same one.
SharesShortID(a, b) ==
    /\ Len(a) >= ShortIDLen /\ Len(b) >= ShortIDLen
    /\ \A i \in 1..ShortIDLen : a[i] = b[i]

\* Container c is the one the process runs in, going by the host name.
SelfByName(c) ==
    ContainerID(c) = selfID \/ SharesShortID(ContainerID(c), selfID)

\* Container c has a mount of type volume named volumeName.
MountsVolume(c) ==
    \E i \in 1..Len(mounts[c]) : mounts[c][i] = Mount("volume", volumeName)

\* The backup Sync of run r has been called.
BackupStarted(r) == runs[r].syncErr \in {"running", "nil", "err"}

\* C14: when a scheduled run is over, ContainerStart has been issued in it
\* for every container for which its ContainerStop succeeded.
C14_StoppedAreRestarted ==
    \A r \in RunIds :
        runs[r].pc = "done" =>
            \A c \in Range(runs[r].stoppedIDs) : c \in Range(runs[r].startCalls)

\* Supporting fact for C14: a run whose stop phase returned no error has
\* issued ContainerStart for every container it stopped, whatever the
\* backup returned.
RestartedWhenStopPhaseSucceeded ==
    \A r \in RunIds :
        (runs[r].pc = "done" /\ runs[r].stopErr = "nil") =>
            \A c \in Range(runs[r].stoppedIDs) : c \in Range(runs[r].startCalls)

\* C15: at startup the restore is called iff the sentinel file is missing;
\* a sentinel created by this process was created after its restore
\* returned nil; with the sentinel present no restore is called.
C15_SentinelGating ==
    /\ boot.stat # "none" => (boot.restore # "skipped" <=> ~boot.sentinel)
    /\ (boot.stat # "none" /\ ~boot.sentinel /\ sentinel) => boot.restore = "ok"
    /\ boot.sentinel => boot.restore \in {"none", "skipped"}

\* Supporting fact for C15: the gating holds whenever os.Stat answers (nil
\* or an error satisfying os.IsNotExist); the sentinel is created only
\* after a restore returned nil, and never restored over, in every case.
SentinelGatingWhenStatAnswers ==
    /\ boot.stat \in {"nil", "ErrNotExist"} =>
          (boot.restore # "skipped" <=> ~boot.sentinel)
    /\ (boot.stat # "none" /\ ~boot.sentinel /\ sentinel) => boot.restore = "ok"
    /\ boot.sentinel => boot.restore \in {"none", "skipped"}

\* C16: a backup Sync is called only in a process whose restore returned
\* nil or was skipped because the sentinel was present; a process whose
\* restore failed has exited without starting a run.
C16_NoBackupOnUnrestoredVolume ==
    /\ \A r \in RunIds :
          BackupStarted(r) =>
              \/ boot.restore = "ok"
              \/ boot.restore = "skipped" /\ boot.sentinel
    /\ boot.restore = "failed" =>
          mainPc = "exited" /\ \A r \in RunIds : runs[r].pc = "idle"

\* Supporting fact for C16: a backup Sync is called only after initialSync
\* has returned, its restore having returned nil or been skipped, and never
\* after a failed restore.
BackupOnlyAfterInitialSync ==
    /\ \A r \in RunIds :
          BackupStarted(r) =>
              \/ boot.restore = "ok"
              \/ boot.restore = "skipped" /\ (boot.sentinel \/ boot.stat = "error")
    /\ boot.restore = "failed" =>
          mainPc = "exited" /\ \A r \in RunIds : runs[r].pc = "idle"

\* C17: no ContainerStop is issued for a container whose ID equals the host
\* name or has the same short ID, and no such container is in the list of
\* stopped containers, whatever it mounts.
C17_SelfNeverStopped ==
    \A r \in RunIds : \A c \in Containers :
        SelfByName(c) =>
            /\ c \notin Range(runs[r].stopCalls)
            /\ c \notin Range(runs[r].stoppedIDs)
            /\ c \notin Range(runs[r].stopped)

\* The host name is the short ID of a container that mounts the volume: a
\* run stopped another container and left that one running.
C17_Witness ==
    \E r \in RunIds : \E c \in Containers :
        /\ SelfByName(c) /\ ContainerID(c) # selfID
        /\ MountsVolume(c)
        /\ runs[r].pc = "sync"
        /\ c \in Range(runs[r].listing)
        /\ runs[r].stopped # <<>>
        /\ c \in running

\* The host name is the whole ID of a container that mounts the volume,
\* an ID shorter than a short ID.
C17_WitnessEqual ==
    \E r \in RunIds : \E c \in Containers :
        /\ ContainerID(c) = selfID /\ Len(selfID) < ShortIDLen
        /\ MountsVolume(c)
        /\ runs[r].pc = "sync"
        /\ c \in Range(runs[r].listing)
        /\ runs[r].stopped # <<>>

\* C18: when StopContainersAttachedToVolume returns no error, the
\* ContainerStop calls it made are the listed containers that mount the
\* volume and are not self, each once and in listing order, and it returned
\* that list.
C18_StopsExactlyAttached ==
    \A r \in RunIds :
        (runs[r].stopErr = "nil" /\ volumeName # "") =>
            LET ToStop(c) == MountsVolume(c) /\ ~SelfByName(c)
            IN  /\ runs[r].stopCalls = SelectSeq(runs[r].listing, ToStop)
                /\ runs[r].stopped = runs[r].stopCalls

\* Two containers that mount the volume were stopped, in listing order,
\* and a listed container with a bind mount of the volume's name and
\* another volume was left running.
C18_Witness ==
    \E r \in RunIds :
        /\ runs[r].stopErr = "nil"
        /\ Len(runs[r].stopped) = 2
        /\ runs[r].stopped[1] < runs[r].stopped[2]
        /\ \E c \in Range(runs[r].listing) :
             /\ mounts[c] = <<Mount("bind", "data"), Mount("volume", "other")>>
             /\ c \in running

\* C19: StartContainers issues ContainerStart for the IDs of its input in
\* order, each once, goes on after a start that failed, and returns nil.
C19_StartsEveryID ==
    \A r \in RunIds :
        /\ runs[r].pc = "starting" =>
              /\ runs[r].startCalls = SubSeq(runs[r].stopped, 1, runs[r].idx - 1)
              /\ runs[r].restartErr = "none"
        /\ runs[r].pc = "done" =>
              /\ runs[r].startCalls = runs[r].stopped
              /\ runs[r].restartErr = "nil"

\* The first start of two failed: the second container was started all the
\* same and StartContainers returned nil.
C19_Witness ==
    \E r \in RunIds :
        /\ runs[r].pc = "done"
        /\ Len(runs[r].stopped) = 2
        /\ runs[r].startCalls = runs[r].stopped
        /\ runs[r].stopped[1] \in runs[r].startFailed
        /\ runs[r].stopped[2] \in running
        /\ runs[r].restartErr = "nil"

\* The containers StopContainersAttachedToVolume is to stop, in listing
\* order: those of the listing that mount the volume and are not self.
ToStop(l) ==
    LET Sel(c) == MountsVolume(c) /\ ~SelfByName(c)
    IN  SelectSeq(l, Sel)

\* C28: when a ContainerStop fails, StopContainersAttachedToVolume returns
\* the stop error together with the IDs it had stopped before, and has
\* issued no ContainerStop for the containers that follow the failing one
\* in the listing; when the listing fails it returns the listing error and
\* has stopped nothing.
C28_StopFailureReturn ==
    \A r \in RunIds :
        /\ runs[r].stopErr = "stop" =>
              LET n == Len(runs[r].stopCalls)
              IN  /\ n >= 1
                  /\ runs[r].stoppedIDs = SubSeq(runs[r].stopCalls, 1, n - 1)
                  /\ runs[r].stopCalls = SubSeq(ToStop(runs[r].listing), 1, n)
                  /\ runs[r].pc \in {"done", "killed"}
        /\ runs[r].stopErr = "list" =>
              /\ runs[r].stopCalls = <<>>
              /\ runs[r].stoppedIDs = <<>>
              /\ runs[r].listing = <<>>

\* The second ContainerStop of three failed: the first container's ID was
\* returned with the error and the third container, which mounts the
\* volume, got no ContainerStop and is running.
C28_Witness ==
    \E r \in RunIds :
        /\ runs[r].stopErr = "stop"
        /\ Len(runs[r].stopCalls) = 2
        /\ Len(runs[r].stoppedIDs) = 1
        /\ Len(ToStop(runs[r].listing)) = 3
        /\ ToStop(runs[r].listing)[3] \in running

\* The listing of a run failed after another run had stopped a container.
C28_WitnessList ==
    \E r, q \in RunIds :
        /\ runs[r].stopErr = "list"
        /\ runs[q].stoppedIDs # <<>>

\* The order of run r, in a state.
RunOrdered(r) ==
    /\ BackupStarted(r) =>
          /\ runs[r].stopErr = "nil"
          /\ runs[r].stopCalls = runs[r].stoppedIDs
          /\ runs[r].stopped = runs[r].stoppedIDs
          /\ volumeName # "" => runs[r].stopCalls = ToStop(runs[r].listing)
    /\ runs[r].stopErr \notin {"none", "nil"} =>
          runs[r].syncErr = "skipped"
    /\ (runs[r].startCalls # <<>> \/ runs[r].pc = "starting") =>
          runs[r].syncErr \in {"nil", "err", "skipped"}
    /\ runs[r].syncErr \in {"none", "running"} => runs[r].startCalls = <<>>

\* The backup of run r returns an error in this step.
BackupFails(r) ==
    runs[r].syncErr = "running" /\ runs'[r].syncErr = "err"

\* C29: in a scheduled run the backup Sync starts only after every
\* ContainerStop of the run has returned success and is skipped when the
\* stop phase failed; ContainerStart is issued only after the backup has
\* returned or was skipped; a backup that fails leaves the process and
\* its schedule as they are, and after it the next tick can start a run.
C29_RunOrder ==
    /\ [](\A r \in RunIds : RunOrdered(r))
    /\ [][\A r \in RunIds : BackupFails(r) =>
             /\ mainPc' = mainPc
             /\ \A q \in RunIds \ {r} : runs'[q] = runs[q]]_vars
    /\ [](\A r \in RunIds :
             (mainPc = "serving" /\ runs[r].syncErr = "err"
                /\ r < MaxRuns /\ runs[r + 1].pc = "idle") =>
                 ENABLED RunSync(r + 1))

\* The backup of the first run failed after two containers had been
\* stopped; they were started again and the next tick's run has stopped
\* them again and is in its own backup.
C29_Witness ==
    /\ mainPc = "serving"
    /\ runs[1].pc = "done" /\ runs[1].syncErr = "err"
    /\ Len(runs[1].stopCalls) = 2
    /\ runs[1].startCalls = runs[1].stopCalls
    /\ runs[2].syncErr = "running"
    /\ Len(runs[2].stopCalls) = 2

\* The stop phase of a run failed: its backup was skipped and no container
\* was started.
C29_WitnessSkipped ==
    \E r \in RunIds :
        /\ runs[r].pc = "done"
        /\ runs[r].stopErr = "stop"
        /\ runs[r].syncErr = "skipped"
        /\ runs[r].startCalls = <<>>

\* ------------------------------- properties: endpoints and configuration
\* A relative path or key that names a directory: it ends with the
\* separator, as the object does that marks a folder in a bucket.
NamesDirectory(str) == str # <<>> /\ str[Len(str)] = "/"

\* C21: no snapshot of either enumerator contains a directory entry or the
\* empty path: every key of the remote listing's map is a non-empty
\* relative path that does not name a directory, and every key of the
\* local walk's map is the non-empty relative path of an entry that is
\* not a directory.
C21_NoDirectoryNoRootMarker ==
    /\ \A relPath \in DOMAIN objs :
          /\ relPath # <<>>
          /\ ~NamesDirectory(relPath)
          /\ ~NamesDirectory(objs[relPath].Key)
    /\ \A relPath \in DOMAIN objects :
          /\ relPath # <<>>
          /\ Join(root, relPath) \in DOMAIN tree
          /\ tree[Join(root, relPath)] # "dir"

\* Supporting fact for C21: no snapshot contains the empty path, the
\* local walk's snapshot contains no directory, and the remote listing's
\* snapshot does not contain the object whose key is the prefix itself, or
\* the prefix followed by one separator.
NoEmptyPathNoLocalDirectory ==
    /\ \A relPath \in DOMAIN objs :
          /\ relPath # <<>>
          /\ objs[relPath].Key \notin {prefix, prefix \o <<"/">>} \/ prefix = <<>>
    /\ \A relPath \in DOMAIN objects :
          /\ relPath # <<>>
          /\ Join(root, relPath) \in DOMAIN tree
          /\ tree[Join(root, relPath)] # "dir"

\* C30: the key an executor builds from the prefix and a relative path of
\* the remote listing's snapshot is the key of the object that produced
\* the snapshot entry.
C30_KeyRoundTrip ==
    (keyCall.fn # "none" /\ keyCall.relPath \in DOMAIN objs) =>
        keyCall.key = objs[keyCall.relPath].Key

\* A key written as a clean relative path: no empty element, no leading or
\* trailing separator.
CleanKey(key) == Clean(key) = key /\ key[1] # "/"

\* The prefix with one separator at its end, the empty prefix as it is.
AsDirectory(pre) ==
    IF pre = <<>> \/ pre[Len(pre)] = "/" THEN pre ELSE pre \o <<"/">>

\* Supporting fact for C30: the round trip holds for an object whose key is
\* a clean relative path that lies below the prefix taken as a directory.
RoundTripOfCleanKeysBelowPrefix ==
    (keyCall.fn # "none" /\ keyCall.relPath \in DOMAIN objs
       /\ CleanKey(objs[keyCall.relPath].Key)
       /\ HasPrefix(objs[keyCall.relPath].Key, AsDirectory(prefix))) =>
        keyCall.key = objs[keyCall.relPath].Key

\* A string that is a decimal integer: an optional sign and then digits
\* only; its value.
Unsigned(str) ==
    IF str # <<>> /\ str[1] \in {"+", "-"} THEN SubSeq(str, 2, Len(str)) ELSE str
IsInteger(str) ==
    /\ Unsigned(str) # <<>>
    /\ \A i \in 1..Len(Unsigned(str)) : Unsigned(str)[i] \in Digits
IntegerValue(str) ==
    IF str[1] = "-" THEN 0 - Decimal(Unsigned(str)) ELSE Decimal(Unsigned(str))

\* The configuration has been loaded.
Loaded == mainPc \in {"new", "initialSync"}

\* C23: the loaded concurrency is the value of SYNC_CONCURRENCY when that
\* is a positive integer and the default 16 when it is unset, not a
\* number, zero or negative; it is at least 1, and so is the number of
\* workers of a pool started from it.
C23_LoadedConcurrency ==
    /\ Loaded =>
          /\ cfg = IF IsInteger(env) /\ IntegerValue(env) > 0
                   THEN IntegerValue(env) ELSE DefaultConcurrency
          /\ cfg >= 1
    /\ (mainPc = "initialSync" /\ pc # "idle") =>
          wg >= 1 /\ BagCardinality(workers) >= 1

\* Supporting fact for C23: the loaded concurrency is at least 1 whatever
\* SYNC_CONCURRENCY holds, and so is the number of workers of the pool
\* started from it.
ConcurrencyAtLeastOne ==
    /\ Loaded => cfg >= 1
    /\ mainPc = "initialSync" => concurrency = cfg
    /\ (mainPc = "initialSync" /\ pc # "idle") =>
          wg = cfg /\ BagCardinality(workers) = cfg

\* -------------------------------------- properties: overlapping schedule
\* The containers run q has started again: ContainerStart was issued for
\* them and returned success.
Restarted(q) == Range(runs[q].startCalls) \ runs[q].startFailed

\* C31: while the backup Sync of a scheduled run is running, no container
\* that a run of the program has stopped and started again is running,
\* whichever runs are in progress at the same time.
C31_StoppedWhileBackupRuns ==
    \A r \in RunIds :
        runs[r].pc = "sync" =>
            \A q \in RunIds : \A c \in Restarted(q) : c \notin running

\* Supporting fact for C31: a container is running during a backup after
\* the program stopped and restarted it only when the run that restarted
\* it is another one than the run whose backup is running.
RestartedByAnotherRun ==
    \A r \in RunIds :
        runs[r].pc = "sync" =>
            \A c \in Restarted(r) : c \notin running

====
